---- MODULE Spec2Model ----
(***************************************************************************)
(* Model of the transcript fallback chain                                   *)
(* (app/services/transcripts/processor.py), of the chunk splitter           *)
(* (app/services/utils.py), of the request orchestrator                     *)
(* (app/services/content_processor.py), of the usage wrapper                *)
(* (app/decorators.py), of the retry loop and the paragraph grouping of the *)
(* transcript adapters, of ModelSelector (app/model_selector.py), of        *)
(* PromptBuilder (app/services/prompt_builder.py), of the chain that        *)
(* TranscriptProcessor.__init__ configures and of infer_output_tokens of    *)
(* digestly-be.                                                             *)
(*                                                                          *)
(* Python strings are TLA+ strings; TLC evaluates Len, SubSeq and \o on     *)
(* them.  Optional[str] is a sequence: << >> is None, <<s>> is the value s. *)
(***************************************************************************)
EXTENDS Integers, Sequences, FiniteSets, TLC

VARIABLES
    \* TranscriptProcessor.fetch_transcript
    processors,        \* self.processors: the adapters, by position
    chain_pc,          \* position in fetch_transcript
    proc_idx,          \* 1-based index of the adapter the for loop tries next
    call_log,          \* history: one record per adapter invocation
    last_error,        \* local last_error
    chain_result,      \* what fetch_transcript returned or raised
    \* VideoProcessor.process
    transcript_text, mode, custom_prompt, stream, duration, max_tokens,
    pc,                \* position in process / _process_chunked
    path,              \* ROUTING, SINGLE_PASS or CHUNKED
    max_chars, chunks, current_pos,
    i,                 \* 0-based index of the chunk loop
    combined_response, previous_context,
    llm_calls,         \* history: one record per call of self.llm_client
    chunk_results,     \* history: what the LLM answered for each chunk
    stored,            \* history: the text appended to combined_response per chunk
    llm_outcomes,      \* history: one record per call of self.llm_client that ended
    pacing,            \* history: one record per completed asyncio.sleep
    result,            \* what process returned or raised
    \* track_usage (app/decorators.py), one wrapper call per request
    profile_credits,   \* the credits column of the user's profile row; None without a row
    u_pc,              \* position of each wrapper call
    current_credits,   \* local current_credits of SupabaseClient.deduct_credit
    u_events,          \* history: what each wrapper call did, in order
    u_result,          \* what each wrapper call returned or raised
    \* YouTubeTranscriptAPIProcessor._retry_operation
    retry_pc,          \* position in _retry_operation
    attempt,           \* the loop variable of for attempt in range(max_retries)
    delay,             \* local delay
    fetch_log,         \* history: how each call of func ended
    sleeps,            \* history: the arguments of time.sleep, in order
    retry_result,      \* what _retry_operation returned or raised
    \* the paragraph grouping of the adapters
    adapter,           \* which adapter's grouping code runs
    segments,          \* the segment list: records [text, start], start in tenths of a second
    seg_idx,           \* 1-based index of the segment the for loop takes next
    current_paragraph, last_timestamp, formatted_segments,
    group_pc,          \* position in the grouping code
    boundaries,        \* history: one record per paragraph emitted, in order
    transcript_out,    \* the normalized transcript returned
    \* ModelSelector.get_model_config
    sel_mode,          \* argument mode (mode.value)
    video_duration,    \* argument video_duration, in tenths of a minute
    selections,        \* history: the ModelConfig of each call, in order
    \* PromptBuilder
    components,        \* self._components: each key is None while it is not set
    builder_tags,      \* self._tags, as a set ({} for None and for [])
    build_pc,          \* "building" until build() is called
    system_message,    \* the system message build() computed
    built,             \* what build() returned (text is the user message) or raised
    \* the providers behind TranscriptProcessor's configured chain
    available,         \* what each provider answers when it is asked: a text or an error
    \* infer_output_tokens (app/services/utils.py)
    tok_mode,          \* argument mode
    tok_text,          \* argument transcript_text
    tok_pc,            \* "called" until the function returns
    max_output_tokens, \* the value returned
    \* the ledger of track_usage
    initial_credits    \* history: the credits column before any wrapper call

chainVars == <<processors, chain_pc, proc_idx, call_log, last_error, chain_result>>

procVars == <<transcript_text, mode, custom_prompt, stream, duration, max_tokens,
              pc, path, max_chars, chunks, current_pos, i, combined_response,
              previous_context, llm_calls, chunk_results, stored, llm_outcomes,
              pacing, result>>

usageVars == <<profile_credits, u_pc, current_credits, u_events, u_result>>

retryVars == <<retry_pc, attempt, delay, fetch_log, sleeps, retry_result>>

groupVars == <<adapter, segments, seg_idx, current_paragraph, last_timestamp,
               formatted_segments, group_pc, boundaries, transcript_out>>

selectorVars == <<sel_mode, video_duration, selections>>

builderVars == <<components, builder_tags, build_pc, system_message, built>>

configVars == <<available>>

tokenVars == <<tok_mode, tok_text, tok_pc, max_output_tokens>>

ledgerVars == <<initial_credits>>

auxVars == <<usageVars, retryVars, groupVars, selectorVars, builderVars, configVars,
             tokenVars, ledgerVars>>

notTokenVars == <<chainVars, procVars, usageVars, retryVars, groupVars, selectorVars,
                  builderVars, configVars, ledgerVars>>

\* what the actions of one component leave alone: the variables of all the others
notUsageVars == <<chainVars, procVars, retryVars, groupVars, selectorVars, builderVars,
                  configVars, tokenVars, ledgerVars>>

notRetryVars == <<chainVars, procVars, usageVars, groupVars, selectorVars, builderVars,
                  configVars, tokenVars, ledgerVars>>

notGroupVars == <<chainVars, procVars, usageVars, retryVars, selectorVars, builderVars,
                  configVars, tokenVars, ledgerVars>>

notSelectorVars == <<chainVars, procVars, usageVars, retryVars, groupVars, builderVars,
                  configVars, tokenVars, ledgerVars>>

notBuilderVars == <<chainVars, procVars, usageVars, retryVars, groupVars, selectorVars,
                  configVars, tokenVars, ledgerVars>>

vars == <<chainVars, procVars, auxVars>>

(* Bounds *)

MaxAdapters == 4
MaxTextLen == 6
MaxTokens == 2
MaxRequests == 2
MaxCredits == 2
MaxSegments == 3
MaxSelections == 2

(* Python string primitives *)

Min(a, b) == IF a < b THEN a ELSE b

Max(a, b) == IF a > b THEN a ELSE b

\* s[k] for a 0-based k inside the string
CharAt(s, k) == SubSeq(s, k + 1, k + 1)

\* s[a:b] for 0 <= a, with Python's clamping of both ends
Slice(s, a, b) == SubSeq(s, Min(a, Len(s)) + 1, Min(Max(b, 0), Len(s)))

\* s[a:]
SliceFrom(s, a) == Slice(s, a, Len(s))

\* s[p:p+len(sub)] == sub
MatchAt(s, sub, p) == p >= 0 /\ p + Len(sub) <= Len(s) /\ Slice(s, p, p + Len(sub)) = sub

\* the 0-based positions at which sub occurs in s
Occurrences(s, sub) == {p \in 0..Len(s) : MatchAt(s, sub, p)}

SetMax(S) == CHOOSE x \in S : \A y \in S : y <= x

SetMin(S) == CHOOSE x \in S : \A y \in S : x <= y

\* s.rfind(sub)
RFind(s, sub) == IF Occurrences(s, sub) = {} THEN -1 ELSE SetMax(Occurrences(s, sub))

\* s.find(sub)
Find(s, sub) == IF Occurrences(s, sub) = {} THEN -1 ELSE SetMin(Occurrences(s, sub))

\* sub in s
Contains(s, sub) == Occurrences(s, sub) # {}

Whitespace == {" ", "\n", "\t", "\r", "\f"}

RECURSIVE LStrip(_)
LStrip(s) == IF Len(s) > 0 /\ CharAt(s, 0) \in Whitespace THEN LStrip(SliceFrom(s, 1)) ELSE s

RECURSIVE RStrip(_)
RStrip(s) ==
    IF Len(s) > 0 /\ CharAt(s, Len(s) - 1) \in Whitespace
    THEN RStrip(Slice(s, 0, Len(s) - 1)) ELSE s

\* s.strip()
Strip(s) == RStrip(LStrip(s))

\* s.split(sep)[0]
SplitHead(s, sep) == IF Contains(s, sep) THEN Slice(s, 0, Find(s, sep)) ELSE s

\* Optional[str]
None == << >>

Some(s) == <<s>>

(* TranscriptProcessor.fetch_transcript: the fallback chain *)

\* the value of last_error before any adapter failed
NoError == [type |-> "NoneType", msg |-> ""]

\* what an adapter's fetch_transcript may return
AdapterTexts == {"", "Hello. [[0.0]]", "Other text [[12.5]]"}

\* the exceptions an adapter's fetch_transcript may raise
AdapterErrors ==
    { [type |-> "ValueError", msg |-> "No transcript found for video ID: v"],
      [type |-> "ValueError", msg |-> "Unable to fetch transcript"],
      [type |-> "ValueError", msg |-> "No transcript processors available"],
      [type |-> "AttributeError", msg |-> "None"],
      [type |-> "Exception", msg |-> ""] }

\* if last_error: an exception object is always truthy, None is not
Truthy(e) == e # NoError

\* last_error = e
RecordError_KeepFirst(prev, e) == IF prev = NoError THEN e ELSE prev

RecordError(prev, e) == e

\* the for loop's step to the next processor
NextProcessor_Skip(k) == k + 2

NextProcessor(k) == k + 1

\* raise ValueError(f"All transcript fetching methods failed: {str(last_error)}")
AllFailedError(e) ==
    [type |-> "ValueError", msg |-> "All transcript fetching methods failed: " \o e.msg]

\* raise ValueError("No transcript processors available")
NoProcessorsError_Aggregate == AllFailedError([type |-> "NoneType", msg |-> "None"])

NoProcessorsError == [type |-> "ValueError", msg |-> "No transcript processors available"]

NoResult == [kind |-> "none", type |-> "", text |-> ""]

Returned(s) == [kind |-> "return", type |-> "str", text |-> s]

Raised(e) == [kind |-> "raise", type |-> e.type, text |-> e.msg]

\* return await processor.fetch_transcript(video_id, language_code)
TryProcessorReturn ==
    /\ chain_pc = "loop"
    /\ proc_idx <= Len(processors)
    /\ \E t \in AdapterTexts :
         /\ call_log' = Append(call_log,
                [adapter |-> processors[proc_idx], ok |-> TRUE, type |-> "str", text |-> t])
         /\ chain_result' = Returned(t)
    /\ chain_pc' = "returned"
    /\ UNCHANGED <<processors, proc_idx, last_error, procVars, auxVars>>

\* except Exception as e: last_error = e; continue
TryProcessorRaise ==
    /\ chain_pc = "loop"
    /\ proc_idx <= Len(processors)
    /\ \E e \in AdapterErrors :
         /\ call_log' = Append(call_log,
                [adapter |-> processors[proc_idx], ok |-> FALSE, type |-> e.type, text |-> e.msg])
         /\ last_error' = RecordError(last_error, e)
    /\ proc_idx' = NextProcessor(proc_idx)
    /\ UNCHANGED <<processors, chain_pc, chain_result, procVars, auxVars>>

\* the loop is exhausted and last_error is set
RaiseAllFailed ==
    /\ chain_pc = "loop"
    /\ proc_idx > Len(processors)
    /\ Truthy(last_error)
    /\ chain_result' = Raised(AllFailedError(last_error))
    /\ chain_pc' = "raised_all_failed"
    /\ UNCHANGED <<processors, proc_idx, call_log, last_error, procVars, auxVars>>

\* the loop is exhausted and no adapter was tried
RaiseNoProcessors ==
    /\ chain_pc = "loop"
    /\ proc_idx > Len(processors)
    /\ ~Truthy(last_error)
    /\ chain_result' = Raised(NoProcessorsError)
    /\ chain_pc' = "raised_no_processors"
    /\ UNCHANGED <<processors, proc_idx, call_log, last_error, procVars, auxVars>>

(* TranscriptProcessor.__init__: the configured chain *)

\* self.processors, by the class each entry is an instance of; the third
\* entry is the class processor.py imports under the name YouTubeTranscriptApi,
\* which youtube_transcript_api.py imported from the transcript library
ConfiguredProcessors ==
    << "SupabaseTranscriptProcessor", "ArchiesTranscriptsProcessor",
       "YouTubeTranscriptApi", "YTDLPProcessor" >>

\* the provider each position of the chain stands for: the cache store, the
\* third-party service, the native transcript library (wrapped by
\* YouTubeTranscriptAPIProcessor) and the subtitle-download tool
ProviderAdapters ==
    << "SupabaseTranscriptProcessor", "ArchiesTranscriptsProcessor",
       "YouTubeTranscriptAPIProcessor", "YTDLPProcessor" >>

\* the classes that define fetch_transcript (BaseTranscriptProcessor subclasses)
HasFetchTranscript(cls) == \E k \in DOMAIN ProviderAdapters : ProviderAdapters[k] = cls

\* processor.fetch_transcript on an object without that attribute
NoFetchTranscript(cls) ==
    [type |-> "AttributeError",
     msg |-> "'" \o cls \o "' object has no attribute 'fetch_transcript'"]

\* how a provider's fetch_transcript may end
AdapterOutcomes ==
    {Returned(t) : t \in AdapterTexts} \cup {Raised(e) : e \in AdapterErrors}

\* what await processor.fetch_transcript(video_id, language_code) does at position k
FetchOutcome(k) ==
    IF HasFetchTranscript(processors[k]) THEN available[k]
    ELSE Raised(NoFetchTranscript(processors[k]))

\* return await processor.fetch_transcript(video_id, language_code)
ConfiguredReturn ==
    /\ chain_pc = "loop"
    /\ proc_idx <= Len(processors)
    /\ FetchOutcome(proc_idx).kind = "return"
    /\ call_log' = Append(call_log,
           [adapter |-> processors[proc_idx], ok |-> TRUE, type |-> "str",
            text |-> FetchOutcome(proc_idx).text])
    /\ chain_result' = Returned(FetchOutcome(proc_idx).text)
    /\ chain_pc' = "returned"
    /\ UNCHANGED <<processors, proc_idx, last_error, procVars, auxVars>>

\* except Exception as e: last_error = e; continue
ConfiguredRaise ==
    /\ chain_pc = "loop"
    /\ proc_idx <= Len(processors)
    /\ FetchOutcome(proc_idx).kind = "raise"
    /\ call_log' = Append(call_log,
           [adapter |-> processors[proc_idx], ok |-> FALSE,
            type |-> FetchOutcome(proc_idx).type, text |-> FetchOutcome(proc_idx).text])
    /\ last_error' = RecordError(last_error,
           [type |-> FetchOutcome(proc_idx).type, msg |-> FetchOutcome(proc_idx).text])
    /\ proc_idx' = NextProcessor(proc_idx)
    /\ UNCHANGED <<processors, chain_pc, chain_result, procVars, auxVars>>

(* find_stop_word_boundary and the splitting loop of _process_chunked *)

MAX_TRANSCRIPT_TOKENS == 10000

CHAR_TO_TOKEN_RATIO == 4

stop_words == <<".\n", "!\n", "?\n", ". ", "! ", "? ", "\n\n", "; ">>

\* the for loop over stop_words from index k on; best is <<best_pos, best_stop_len>>
RECURSIVE BestStop(_, _, _)
BestStop(search_text, k, best) ==
    IF k > Len(stop_words) THEN best
    ELSE LET pos == RFind(search_text, stop_words[k])
         IN BestStop(search_text, k + 1,
                     IF pos > best[1] THEN <<pos, Len(stop_words[k])>> ELSE best)

\* the same function with the search run over the whole text instead of text[:max_chars]
find_stop_word_boundary_NoWindow(text, max_c) ==
    IF text = "" \/ max_c <= 0 THEN 0
    ELSE IF Len(text) <= max_c THEN Len(text)
    ELSE LET best == BestStop(text, 1, <<-1, 0>>)
             last_space == RFind(text, " ")
         IN IF best[1] # -1 THEN best[1] + best[2]
            ELSE IF last_space # -1 THEN last_space + 1
            ELSE max_c

find_stop_word_boundary(text, max_c) ==
    IF text = "" \/ max_c <= 0 THEN 0
    ELSE IF Len(text) <= max_c THEN Len(text)
    ELSE LET search_text == Slice(text, 0, max_c)
             best == BestStop(search_text, 1, <<-1, 0>>)
             last_space == RFind(search_text, " ")
         IN IF best[1] # -1 THEN best[1] + best[2]
            ELSE IF last_space # -1 THEN last_space + 1
            ELSE max_c

\* chunks.append(transcript_text[current_pos:chunk_end])
ChunkSlice_Strip(text, pos, chunk_end) == Strip(Slice(text, pos, chunk_end))

ChunkSlice(text, pos, chunk_end) == Slice(text, pos, chunk_end)

\* the splitting loop cannot be followed beyond this many chunks
MaxChunks == MaxTextLen + 2

(* VideoProcessor.process *)

Modes == {"tldr", "key_insights", "comprehensive", "article", "custom"}

\* the keys of PROMPT_TEMPLATES
PROMPT_TEMPLATE_MODES == {"tldr", "key_insights", "comprehensive", "article"}

CONCLUSION_MARKERS == <<"# Conclusion", "## Conclusion", "### Conclusion">>

Digits == <<"0", "1", "2", "3", "4", "5", "6", "7", "8", "9">>

\* str(n) for n >= 0
RECURSIVE IntToStr(_)
IntToStr(n) == IF n < 10 THEN Digits[n + 1] ELSE IntToStr(n \div 10) \o Digits[(n % 10) + 1]

\* len(text) / CHAR_TO_TOKEN_RATIO > MAX_TRANSCRIPT_TOKENS is a comparison of
\* exact quotients: it holds iff len(text) > MAX_TRANSCRIPT_TOKENS * CHAR_TO_TOKEN_RATIO
truncate_transcript(text) ==
    IF Len(text) > MAX_TRANSCRIPT_TOKENS * CHAR_TO_TOKEN_RATIO
    THEN LET cut == Slice(text, 0, MAX_TRANSCRIPT_TOKENS * CHAR_TO_TOKEN_RATIO)
         IN cut \o "\n\n[Note: This transcript was truncated from " \o IntToStr(Len(text))
                \o " to " \o IntToStr(Len(cut)) \o " characters due to token limits.]"
    ELSE text

\* if duration <= 2400 and stream
UseSinglePass_Inverted(d, s) == d > 2400 /\ s

UseSinglePass(d, s) == d <= 2400 /\ s

\* PromptBuilder.build raises: no mode, or neither (custom prompt and transcript) nor
\* chunk info and get_prompt_template(mode) is None, so that None.format fails
BuildRaises(m, cp, has_transcript, has_chunk) ==
    \/ m = ""
    \/ /\ ~(cp # None /\ has_transcript)
       /\ ~has_chunk
       /\ m \notin PROMPT_TEMPLATE_MODES

BuildError(m) ==
    IF m = "" THEN [type |-> "ValueError", msg |-> "Mode is required to build system message"]
    ELSE [type |-> "AttributeError", msg |-> "'NoneType' object has no attribute 'format'"]

\* the for loop over CONCLUSION_MARKERS from index k on
RECURSIVE StripConclusion(_, _)
StripConclusion(r, k) ==
    IF k > Len(CONCLUSION_MARKERS) THEN r
    ELSE StripConclusion(
            IF Contains(r, CONCLUSION_MARKERS[k])
            THEN Strip(SplitHead(r, CONCLUSION_MARKERS[k])) ELSE r,
            k + 1)

\* s.split(sep)
RECURSIVE SplitAll(_, _)
SplitAll(s, sep) ==
    IF Contains(s, sep)
    THEN <<Slice(s, 0, Find(s, sep))>> \o SplitAll(SliceFrom(s, Find(s, sep) + Len(sep)), sep)
    ELSE <<s>>

\* sep.join(parts)
RECURSIVE Join(_, _)
Join(parts, sep) ==
    IF Len(parts) = 0 THEN ""
    ELSE IF Len(parts) = 1 THEN parts[1]
    ELSE parts[1] \o sep \o Join(Tail(parts), sep)

\* previous_context = ". ".join(sentences[-10:]) if len(sentences) > 10 else chunk_response
PreviousContext_Whole(r) == r

PreviousContext(r) ==
    LET sentences == SplitAll(r, ". ")
    IN IF Len(sentences) > 10
       THEN Join(SubSeq(sentences, Len(sentences) - 9, Len(sentences)), ". ")
       ELSE r

\* what a non-streaming call of the LLM client may return: never the empty string
LLMOutputs ==
    { "Body text\n\n## Conclusion\nWrap up.",
      "Intro\n\n# Conclusion\nEnd.",
      "Plain answer. No heading.\n",
      "A. B. C. D. E. F. G. H. I. J. K. L." }

\* what a call of the LLM client may raise
LLMErrors ==
    { [type |-> "HTTPException",
       msg |-> "504: Request timed out while waiting for the LLM response"],
      [type |-> "ValueError", msg |-> "Empty content received from analysis."] }

LLMCall(kind, index, text, str, context) ==
    [kind |-> kind, index |-> index, text |-> text, stream |-> str, context |-> context]

\* how a call of the LLM client ended: with its return value or with the exception raised
ReturnedOutcome(out) == [ok |-> TRUE, type |-> "str", text |-> out]

RaisedOutcome(e) == [ok |-> FALSE, type |-> e.type, text |-> e.msg]

\* duration <= 2400 and stream: truncate, build the prompt, call the LLM with stream=True
SinglePassIssue ==
    /\ pc = "route"
    /\ UseSinglePass(duration, stream)
    /\ ~BuildRaises(mode, custom_prompt, TRUE, FALSE)
    /\ path' = "SINGLE_PASS"
    /\ llm_calls' = Append(llm_calls,
            LLMCall("single", 0, truncate_transcript(transcript_text), TRUE, ""))
    /\ pc' = "single_call"
    /\ UNCHANGED <<transcript_text, mode, custom_prompt, stream, duration, max_tokens,
                   max_chars, chunks, current_pos, i, combined_response,
                   previous_context, chunk_results, stored, result, llm_outcomes,
                   pacing,
                   chainVars, auxVars>>

\* duration <= 2400 and stream, and PromptBuilder.build raises
SinglePassBuildFails ==
    /\ pc = "route"
    /\ UseSinglePass(duration, stream)
    /\ BuildRaises(mode, custom_prompt, TRUE, FALSE)
    /\ path' = "SINGLE_PASS"
    /\ result' = Raised(BuildError(mode))
    /\ pc' = "failed"
    /\ UNCHANGED <<transcript_text, mode, custom_prompt, stream, duration, max_tokens,
                   max_chars, chunks, current_pos, i, combined_response,
                   previous_context, llm_calls, chunk_results, stored, llm_outcomes,
                   pacing,
                   chainVars, auxVars>>

\* the streaming call returns its generator
SinglePassReturn ==
    /\ pc = "single_call"
    /\ result' = [kind |-> "return", type |-> "stream", text |-> ""]
    /\ llm_outcomes' = Append(llm_outcomes, [ok |-> TRUE, type |-> "stream", text |-> ""])
    /\ pc' = "done"
    /\ UNCHANGED <<transcript_text, mode, custom_prompt, stream, duration, max_tokens,
                   path, max_chars, chunks, current_pos, i, combined_response,
                   previous_context, llm_calls, chunk_results, stored, pacing,
                   chainVars, auxVars>>

\* process: except Exception as e: logging.error(...); raise
Reraise_Generic(e) == [type |-> "HTTPException", msg |-> "500: Error processing transcript"]

Reraise(e) == e

\* the streaming call raises: except Exception as e: ... raise
SinglePassRaise ==
    /\ pc = "single_call"
    /\ \E e \in LLMErrors :
         /\ llm_outcomes' = Append(llm_outcomes, RaisedOutcome(e))
         /\ result' = Raised(Reraise(e))
    /\ pc' = "failed"
    /\ UNCHANGED <<transcript_text, mode, custom_prompt, stream, duration, max_tokens,
                   path, max_chars, chunks, current_pos, i, combined_response,
                   previous_context, llm_calls, chunk_results, stored, pacing,
                   chainVars, auxVars>>

\* if i > 0: the loop body starts with a delay for every chunk but the first
NeedsDelay_Never(k) == FALSE

NeedsDelay(k) == k > 0

\* where iteration k of for i, chunk in enumerate(chunks) starts
LoopEntry(k) == IF NeedsDelay(k) THEN "chunk_sleep" ELSE "chunk_build"

\* else: _process_chunked up to the splitting loop
RouteChunked ==
    /\ pc = "route"
    /\ ~UseSinglePass(duration, stream)
    /\ path' = "CHUNKED"
    /\ max_chars' = max_tokens * CHAR_TO_TOKEN_RATIO
    /\ chunks' = << >>
    /\ current_pos' = 0
    /\ pc' = "split"
    /\ UNCHANGED <<transcript_text, mode, custom_prompt, stream, duration, max_tokens,
                   i, combined_response, previous_context, llm_calls, chunk_results,
                   stored, result, llm_outcomes,
                   pacing,
                   chainVars, auxVars>>

\* one iteration of while current_pos < len(transcript_text)
SplitStep ==
    /\ pc = "split"
    /\ current_pos < Len(transcript_text)
    /\ Len(chunks) < MaxChunks
    /\ LET chunk_end ==
               find_stop_word_boundary(SliceFrom(transcript_text, current_pos), max_chars)
               + current_pos
       IN /\ chunks' = Append(chunks, ChunkSlice(transcript_text, current_pos, chunk_end))
          /\ current_pos' = chunk_end
    /\ UNCHANGED <<transcript_text, mode, custom_prompt, stream, duration, max_tokens,
                   pc, path, max_chars, i, combined_response, previous_context,
                   llm_calls, chunk_results, stored, result, llm_outcomes,
                   pacing,
                   chainVars, auxVars>>

\* the while loop ends; combined_response = ""; previous_context = ""
SplitDone ==
    /\ pc = "split"
    /\ current_pos >= Len(transcript_text)
    /\ combined_response' = ""
    /\ previous_context' = ""
    /\ i' = 0
    /\ pc' = IF Len(chunks) = 0 THEN "final_sleep" ELSE LoopEntry(0)
    /\ UNCHANGED <<transcript_text, mode, custom_prompt, stream, duration, max_tokens,
                   path, max_chars, chunks, current_pos, llm_calls, chunk_results,
                   stored, result, llm_outcomes,
                   pacing,
                   chainVars, auxVars>>

\* the argument of asyncio.sleep in _process_chunked
PACING_SECONDS == 5

\* one completed await asyncio.sleep(seconds), after a given number of LLM calls
Delay(seconds, n_calls) == [seconds |-> seconds, calls |-> n_calls]

\* if i > 0: await asyncio.sleep(5)
ChunkSleep ==
    /\ pc = "chunk_sleep"
    /\ pacing' = Append(pacing, Delay(PACING_SECONDS, Len(llm_calls)))
    /\ pc' = "chunk_build"
    /\ UNCHANGED <<transcript_text, mode, custom_prompt, stream, duration, max_tokens,
                   path, max_chars, chunks, current_pos, i, combined_response,
                   previous_context, llm_calls, chunk_results, stored, result, llm_outcomes,
                   chainVars, auxVars>>

\* the stream parameter of _process_chunked: process passes stream=False, whatever
\* the caller requested
ChunkedStream_Requested(requested) == requested

ChunkedStream(requested) == FALSE

\* the chunk calls started as tasks without awaiting each response
ChunkIssue_NoAwait ==
    /\ pc = "chunk_build"
    /\ ~BuildRaises(mode, None, FALSE, TRUE)
    /\ llm_calls' = llm_calls \o
            [k \in 1..(Len(chunks) - i) |->
                LLMCall("chunk", i + k - 1, chunks[i + k], FALSE, previous_context)]
    /\ pc' = "chunk_call"
    /\ UNCHANGED <<transcript_text, mode, custom_prompt, stream, duration, max_tokens,
                   path, max_chars, chunks, current_pos, i, combined_response,
                   previous_context, chunk_results, stored, result, llm_outcomes,
                   pacing,
                   chainVars, auxVars>>

\* build the chunk prompt (mode and chunk info are set, so build does not raise)
\* and call the LLM with stream=stream
ChunkIssue ==
    /\ pc = "chunk_build"
    /\ ~BuildRaises(mode, None, FALSE, TRUE)
    /\ llm_calls' = Append(llm_calls,
            LLMCall("chunk", i, chunks[i + 1], ChunkedStream(stream), previous_context))
    /\ pc' = "chunk_call"
    /\ UNCHANGED <<transcript_text, mode, custom_prompt, stream, duration, max_tokens,
                   path, max_chars, chunks, current_pos, i, combined_response,
                   previous_context, chunk_results, stored, result, llm_outcomes,
                   pacing,
                   chainVars, auxVars>>

\* if isinstance(chunk_response, str) and i < len(chunks) - 1: the call was made with
\* stream=False, so chunk_response is a str
IsStored(k, n) == k < n - 1

\* lines 145-156 and the step of the for loop, for the chunk_response r
AfterChunk(r) ==
    /\ IF IsStored(i, Len(chunks))
       THEN LET stripped == StripConclusion(r, 1)
            IN /\ combined_response' = combined_response \o "\n\n" \o stripped
               /\ previous_context' = PreviousContext(stripped)
               /\ stored' = Append(stored, Some(stripped))
       ELSE /\ UNCHANGED <<combined_response, previous_context>>
            /\ stored' = Append(stored, None)
    /\ i' = i + 1
    /\ pc' = IF i + 1 < Len(chunks) THEN LoopEntry(i + 1) ELSE "final_sleep"

\* the chunk call returns its text
ChunkReturn ==
    /\ pc = "chunk_call"
    /\ \E out \in LLMOutputs :
         /\ chunk_results' = Append(chunk_results, [ok |-> TRUE, text |-> out])
         /\ llm_outcomes' = Append(llm_outcomes, ReturnedOutcome(out))
         /\ AfterChunk(out)
    /\ UNCHANGED <<transcript_text, mode, custom_prompt, stream, duration, max_tokens,
                   path, max_chars, chunks, current_pos, llm_calls, result, pacing,
                   chainVars, auxVars>>

\* except Exception as e: chunk_response = ""
ChunkRaise ==
    /\ pc = "chunk_call"
    /\ \E e \in LLMErrors :
         /\ chunk_results' = Append(chunk_results, [ok |-> FALSE, text |-> e.msg])
         /\ llm_outcomes' = Append(llm_outcomes, RaisedOutcome(e))
         /\ AfterChunk("")
    /\ UNCHANGED <<transcript_text, mode, custom_prompt, stream, duration, max_tokens,
                   path, max_chars, chunks, current_pos, llm_calls, result, pacing,
                   chainVars, auxVars>>

\* await asyncio.sleep(5) after the loop
FinalSleep ==
    /\ pc = "final_sleep"
    /\ pacing' = Append(pacing, Delay(PACING_SECONDS, Len(llm_calls)))
    /\ pc' = "final_build"
    /\ UNCHANGED <<transcript_text, mode, custom_prompt, stream, duration, max_tokens,
                   path, max_chars, chunks, current_pos, i, combined_response,
                   previous_context, llm_calls, chunk_results, stored, result, llm_outcomes,
                   chainVars, auxVars>>

\* build the synthesis prompt from combined_response and call the LLM with stream=False
FinalIssue ==
    /\ pc = "final_build"
    /\ ~BuildRaises(mode, custom_prompt, TRUE, FALSE)
    /\ llm_calls' = Append(llm_calls,
            LLMCall("final", Len(chunks), combined_response, FALSE, ""))
    /\ pc' = "final_call"
    /\ UNCHANGED <<transcript_text, mode, custom_prompt, stream, duration, max_tokens,
                   path, max_chars, chunks, current_pos, i, combined_response,
                   previous_context, chunk_results, stored, result, llm_outcomes,
                   pacing,
                   chainVars, auxVars>>

\* PromptBuilder.build raises outside any try of _process_chunked
FinalBuildFails ==
    /\ pc = "final_build"
    /\ BuildRaises(mode, custom_prompt, TRUE, FALSE)
    /\ result' = Raised(BuildError(mode))
    /\ pc' = "failed"
    /\ UNCHANGED <<transcript_text, mode, custom_prompt, stream, duration, max_tokens,
                   path, max_chars, chunks, current_pos, i, combined_response,
                   previous_context, llm_calls, chunk_results, stored, llm_outcomes,
                   pacing,
                   chainVars, auxVars>>

\* except Exception as e: final_response = combined_response; return final_response.strip()
FinalFallback_Empty(combined) == ""

FinalFallback(combined) == Strip(combined)

\* return final_response.strip()
FinalReturn ==
    /\ pc = "final_call"
    /\ \E out \in LLMOutputs :
         /\ llm_outcomes' = Append(llm_outcomes, ReturnedOutcome(out))
         /\ result' = Returned(Strip(out))
    /\ pc' = "done"
    /\ UNCHANGED <<transcript_text, mode, custom_prompt, stream, duration, max_tokens,
                   path, max_chars, chunks, current_pos, i, combined_response,
                   previous_context, llm_calls, chunk_results, stored, pacing,
                   chainVars, auxVars>>

\* except Exception as e: final_response = combined_response
FinalRaise ==
    /\ pc = "final_call"
    /\ \E e \in LLMErrors :
         /\ llm_outcomes' = Append(llm_outcomes, RaisedOutcome(e))
         /\ result' = Returned(FinalFallback(combined_response))
    /\ pc' = "done"
    /\ UNCHANGED <<transcript_text, mode, custom_prompt, stream, duration, max_tokens,
                   path, max_chars, chunks, current_pos, i, combined_response,
                   previous_context, llm_calls, chunk_results, stored, pacing,
                   chainVars, auxVars>>

(* track_usage: app/decorators.py, app/credits.py, app/db.py *)

Requests == 1..MaxRequests

\* what the wrapped operation may raise
OpErrors ==
    { [type |-> "HTTPException", msg |-> "500"],
      [type |-> "ValueError", msg |-> "Unable to fetch transcript"] }

\* check_credits: raise HTTPException(status_code=404, ...) / (status_code=403, ...)
ProfileNotFound == [type |-> "HTTPException", msg |-> "404"]

InsufficientCredits == [type |-> "HTTPException", msg |-> "403"]

\* one entry of the history: what happened, the error raised (if any) and the credits
\* that check_credits read (if it read any)
Event(ev, e, c) == [ev |-> ev, err |-> e, credits |-> c]

Log(r, entry) == u_events' = [u_events EXCEPT ![r] = Append(@, entry)]

\* a request enters the wrapper: await check_credits(user)
CallWrapper(r) ==
    /\ u_pc[r] = "idle"
    /\ u_pc' = [u_pc EXCEPT ![r] = "check"]
    /\ UNCHANGED <<profile_credits, current_credits, u_events, u_result,
                   notUsageVars>>

\* check_credits returns: the profile exists and credits > 0
CheckPasses(r) ==
    /\ u_pc[r] = "check"
    /\ profile_credits # None
    /\ profile_credits[1] > 0
    /\ Log(r, Event("check_passed", NoError, profile_credits[1]))
    /\ u_pc' = [u_pc EXCEPT ![r] = "call_func"]
    /\ UNCHANGED <<profile_credits, current_credits, u_result, notUsageVars>>

\* check_credits raises: get_profile gave None (no row, a non-200 answer or an
\* exception inside get_profile), or credits <= 0; the wrapper re-raises
CheckFails(r) ==
    /\ u_pc[r] = "check"
    /\ \E e \in {ProfileNotFound, InsufficientCredits} :
         /\ e = InsufficientCredits => (profile_credits # None /\ profile_credits[1] <= 0)
         /\ u_result' = [u_result EXCEPT ![r] = Raised(e)]
         /\ Log(r, Event("check_failed", e, 0))
    /\ u_pc' = [u_pc EXCEPT ![r] = "raised"]
    /\ UNCHANGED <<profile_credits, current_credits, notUsageVars>>

\* result = await func(*args, user=user, **kwargs), or the sync call
CallFunc(r) ==
    /\ u_pc[r] = "call_func"
    /\ Log(r, Event("func_started", NoError, 0))
    /\ u_pc' = [u_pc EXCEPT ![r] = "in_func"]
    /\ UNCHANGED <<profile_credits, current_credits, u_result, notUsageVars>>

\* func returns: the wrapper goes on to await deduct_credit(user["id"])
FuncReturns(r) ==
    /\ u_pc[r] = "in_func"
    /\ Log(r, Event("func_returned", NoError, 0))
    /\ u_pc' = [u_pc EXCEPT ![r] = "deduct"]
    /\ UNCHANGED <<profile_credits, current_credits, u_result, notUsageVars>>

\* where the wrapper goes when func raises: except Exception as e: ...; raise
AfterFuncRaised_Finally == "deduct"

AfterFuncRaised == "raised"

\* func raises e
FuncRaises(r) ==
    /\ u_pc[r] = "in_func"
    /\ \E e \in OpErrors :
         /\ u_result' = [u_result EXCEPT ![r] = Raised(e)]
         /\ Log(r, Event("func_raised", e, 0))
    /\ u_pc' = [u_pc EXCEPT ![r] = AfterFuncRaised]
    /\ UNCHANGED <<profile_credits, current_credits, notUsageVars>>

\* deduct_credit up to its first await: profile = await self.get_profile(user_id)
DeductRead(r) ==
    /\ u_pc[r] = "deduct"
    /\ Log(r, Event("deduct_requested", NoError, 0))
    /\ \/ \* the profile is there and current_credits > 0
          /\ profile_credits # None
          /\ profile_credits[1] > 0
          /\ current_credits' = [current_credits EXCEPT ![r] = profile_credits[1]]
          /\ u_pc' = [u_pc EXCEPT ![r] = "update"]
          /\ UNCHANGED u_result
       \/ \* get_profile gave None (no row, or a failure it swallowed), or
          \* current_credits <= 0: deduct_credit returns None or 0; return result
          /\ u_pc' = [u_pc EXCEPT ![r] = "returned"]
          /\ u_result' = [u_result EXCEPT ![r] = Returned("result")]
          /\ UNCHANGED current_credits
    /\ UNCHANGED <<profile_credits, notUsageVars>>

\* success = await self.update_credits(user_id, current_credits - 1): the PATCH
\* writes the row or fails; either way the wrapper returns result
DeductUpdate(r) ==
    /\ u_pc[r] = "update"
    /\ \/ profile_credits' = Some(current_credits[r] - 1)
       \/ UNCHANGED profile_credits
    /\ u_pc' = [u_pc EXCEPT ![r] = "returned"]
    /\ u_result' = [u_result EXCEPT ![r] = Returned("result")]
    /\ UNCHANGED <<current_credits, u_events, notUsageVars>>

(* _retry_operation: implementations/youtube_transcript_api.py *)

\* def _retry_operation(self, func, max_retries: int = 4, delay: int = 5)
max_retries == 4

INITIAL_DELAY == 5

\* what func (the library's fetch) may raise, as [type, str(e)]
FetchErrors ==
    { [type |-> "ParseError", msg |-> "no element found: line 1, column 0"],
      [type |-> "ExpatError", msg |-> "no element found: line 2, column 14"],
      [type |-> "CouldNotRetrieveTranscript",
       msg |-> "Could not retrieve a transcript: no element found"],
      [type |-> "TranscriptsDisabled", msg |-> "Subtitles are disabled for this video"],
      [type |-> "ConnectionError", msg |-> ""] }

\* what func may return
FetchValues == {"transcript_list_a", "transcript_list_b"}

\* "no element found" in str(e)
IsTransient_Any(e) == TRUE

IsTransient(e) == Contains(e.msg, "no element found")

UnableToFetch == [type |-> "ValueError", msg |-> "Unable to fetch transcript"]

\* return func()
FetchReturns ==
    /\ retry_pc = "try"
    /\ \E v \in FetchValues :
         /\ fetch_log' = Append(fetch_log, Returned(v))
         /\ retry_result' = Returned(v)
    /\ retry_pc' = "returned"
    /\ UNCHANGED <<attempt, delay, sleeps, notRetryVars>>

\* func raises a transient error before the last attempt: time.sleep(delay);
\* delay *= 2; next iteration
FetchRaisesRetry ==
    /\ retry_pc = "try"
    /\ \E e \in FetchErrors :
         /\ IsTransient(e) /\ attempt < max_retries - 1
         /\ fetch_log' = Append(fetch_log, Raised(e))
    /\ sleeps' = Append(sleeps, delay)
    /\ delay' = delay * 2
    /\ attempt' = attempt + 1
    /\ UNCHANGED <<retry_pc, retry_result, notRetryVars>>

\* func raises another error, or a transient error at the last attempt:
\* raise ValueError("Unable to fetch transcript")
FetchRaisesGiveUp ==
    /\ retry_pc = "try"
    /\ \E e \in FetchErrors :
         /\ ~(IsTransient(e) /\ attempt < max_retries - 1)
         /\ fetch_log' = Append(fetch_log, Raised(e))
    /\ retry_result' = Raised(UnableToFetch)
    /\ retry_pc' = "raised"
    /\ UNCHANGED <<attempt, delay, sleeps, notRetryVars>>

(* Paragraph grouping: processor.py (cache), archies_transcripts_api.py and       *)
(* yungs_transcripts_api.py (third-party), youtube_transcript_api.py (native),   *)
(* ytdlp_processor.py (subtitle download).  Times are in tenths of a second.      *)

Adapters == {"supabase", "archies", "yungs", "native", "ytdlp"}

\* paragraph_timegap=30 and the literal 30 of the other adapters, in tenths
PARAGRAPH_TIMEGAP == 300

sentence_endings == {".", "!", "?"}

\* text.endswith((".", "!", "?"))
EndsWithSentenceEnding(text) ==
    Len(text) > 0 /\ CharAt(text, Len(text) - 1) \in sentence_endings

\* f"{start:.1f}" for a start of t tenths of a second, t >= 0
FormatTime(t) == IntToStr(t \div 10) \o "." \o Digits[(t % 10) + 1]

\* f"{paragraph_text} [[{start:.1f}]]"
WithMarker(paragraph, t) == Join(paragraph, " ") \o " [[" \o FormatTime(t) \o "]]"

\* the truth value of last_timestamp: None and 0 are falsy
HasTimestamp(ts) == ts # None /\ ts[1] # 0

\* (start - last_timestamp) > 30 if last_timestamp else <default>
TimeGap(start, ts, default) ==
    IF HasTimestamp(ts) THEN (start - ts[1]) > PARAGRAPH_TIMEGAP ELSE default

\* one entry of the history: the paragraph closed after segment k, the start of that
\* segment, the timestamp of the paragraph emitted before it (None if there is none)
\* and the timestamp of its marker (None if it has no marker)
Boundary(k, start, marker) ==
    [after |-> k, start |-> start,
     previous |-> IF \E j \in 1..Len(boundaries) : boundaries[j].marker # None
                  THEN boundaries[SetMax({j \in 1..Len(boundaries) :
                                             boundaries[j].marker # None})].marker
                  ELSE None,
     marker |-> marker]

\* formatted_segments.append(f"{paragraph_text} [[{start:.1f}]]"); current_paragraph = []
EmitParagraph(paragraph, start) ==
    /\ formatted_segments' = Append(formatted_segments, WithMarker(paragraph, start))
    /\ current_paragraph' = << >>
    /\ boundaries' = Append(boundaries, Boundary(seg_idx, start, Some(start)))

\* one iteration of the for loop of the cache, third-party and native adapters:
\* the text is stripped and an empty text is skipped; without a previous timestamp the
\* gap is True; last_timestamp moves only when a paragraph is emitted
GroupStripped(is_last_segment) ==
    LET text == Strip(segments[seg_idx].text)
        start == segments[seg_idx].start
        paragraph == Append(current_paragraph, text)
    IN /\ IF text # ""
          THEN IF \/ EndsWithSentenceEnding(text)
                  \/ TimeGap(start, last_timestamp, TRUE)
                  \/ is_last_segment
               THEN /\ EmitParagraph(paragraph, start)
                    /\ last_timestamp' = Some(start)
               ELSE /\ current_paragraph' = paragraph
                    /\ UNCHANGED <<formatted_segments, last_timestamp, boundaries>>
          ELSE UNCHANGED <<current_paragraph, formatted_segments, last_timestamp,
                           boundaries>>
       /\ seg_idx' = seg_idx + 1

\* SupabaseTranscriptProcessor.fetch_transcript, lines 24-38
GroupSegmentCache ==
    /\ group_pc = "loop"
    /\ adapter = "supabase"
    /\ seg_idx <= Len(segments)
    /\ GroupStripped(FALSE)
    /\ UNCHANGED <<adapter, segments, group_pc, transcript_out, notGroupVars>>

\* ArchiesTranscriptsProcessor / YungsTranscriptsProcessor fetch_transcript
GroupSegmentThirdParty ==
    /\ group_pc = "loop"
    /\ adapter \in {"archies", "yungs"}
    /\ seg_idx <= Len(segments)
    /\ GroupStripped(FALSE)
    /\ UNCHANGED <<adapter, segments, group_pc, transcript_out, notGroupVars>>

\* YouTubeTranscriptAPIProcessor.fetch_transcript: is_last_segment = i == len(...) - 1
GroupSegmentNative ==
    /\ group_pc = "loop"
    /\ adapter = "native"
    /\ seg_idx <= Len(segments)
    /\ GroupStripped(seg_idx = Len(segments))
    /\ UNCHANGED <<adapter, segments, group_pc, transcript_out, notGroupVars>>

\* YTDLPProcessor.format_transcript_with_timestamps: the text is appended as it is,
\* without a previous timestamp the gap is False, and last_timestamp = start_time
\* after every segment
GroupSegmentYtdlp ==
    /\ group_pc = "loop"
    /\ adapter = "ytdlp"
    /\ seg_idx <= Len(segments)
    /\ LET text == segments[seg_idx].text
           start_time == segments[seg_idx].start
           paragraph == Append(current_paragraph, text)
       IN /\ IF \/ EndsWithSentenceEnding(RStrip(text))
                \/ TimeGap(start_time, last_timestamp, FALSE)
             THEN EmitParagraph(paragraph, start_time)
             ELSE /\ current_paragraph' = paragraph
                  /\ UNCHANGED <<formatted_segments, boundaries>>
          /\ last_timestamp' = Some(start_time)
    /\ seg_idx' = seg_idx + 1
    /\ UNCHANGED <<adapter, segments, group_pc, transcript_out, notGroupVars>>

\* after the loop of the cache, third-party and native adapters: a pending paragraph
\* is appended without a marker; return " ".join(formatted_segments)
GroupFinish ==
    /\ group_pc = "loop"
    /\ adapter # "ytdlp"
    /\ seg_idx > Len(segments)
    /\ LET final == IF current_paragraph # << >>
                    THEN Append(formatted_segments, Join(current_paragraph, " "))
                    ELSE formatted_segments
       IN /\ formatted_segments' = final
          /\ transcript_out' = Join(final, " ")
    /\ boundaries' = IF current_paragraph # << >>
                      THEN Append(boundaries,
                                  Boundary(Len(segments), segments[Len(segments)].start, None))
                      ELSE boundaries
    /\ group_pc' = "done"
    /\ UNCHANGED <<adapter, segments, seg_idx, current_paragraph, last_timestamp,
                   notGroupVars>>

\* after the loop of format_transcript_with_timestamps: a pending paragraph gets the
\* marker of segments[-1]["start"]
GroupFinishYtdlp ==
    /\ group_pc = "loop"
    /\ adapter = "ytdlp"
    /\ seg_idx > Len(segments)
    /\ LET last_time == segments[Len(segments)].start
           final == IF current_paragraph # << >>
                    THEN Append(formatted_segments, WithMarker(current_paragraph, last_time))
                    ELSE formatted_segments
       IN /\ formatted_segments' = final
          /\ transcript_out' = Join(final, " ")
          /\ boundaries' = IF current_paragraph # << >>
                            THEN Append(boundaries,
                                        Boundary(Len(segments), last_time, Some(last_time)))
                            ELSE boundaries
    /\ group_pc' = "done"
    /\ UNCHANGED <<adapter, segments, seg_idx, current_paragraph, last_timestamp,
                   notGroupVars>>

(* ModelSelector: app/model_selector.py, with the default configuration.          *)
(* Durations are in tenths of a minute, temperatures in tenths.                    *)

\* _get_default_config()["models"]
models ==
    [tldr |-> [short |-> "llama-3.1-8b-instant",
               medium |-> "gemma2-9b-it",
               long |-> "meta-llama/llama-4-scout-17b-16e-instruct",
               very_long |-> "meta-llama/llama-4-scout-17b-16e-instruct"],
     key_insights |-> [short |-> "gemma2-9b-it",
                       medium |-> "meta-llama/llama-4-scout-17b-16e-instruct",
                       long |-> "llama-3.3-70b-versatile",
                       very_long |-> "deepseek-r1-distill-llama-70b"],
     comprehensive |-> [short |-> "meta-llama/llama-4-scout-17b-16e-instruct",
                        medium |-> "llama-3.3-70b-versatile",
                        long |-> "llama-3.3-70b-versatile",
                        very_long |-> "llama-3.3-70b-versatile"],
     article |-> [short |-> "meta-llama/llama-4-scout-17b-16e-instruct",
                  medium |-> "llama-3.3-70b-versatile",
                  long |-> "llama-3.3-70b-versatile",
                  very_long |-> "llama-3.3-70b-versatile"],
     custom |-> [short |-> "llama-3.1-8b-instant",
                 medium |-> "llama-3.3-70b-versatile",
                 long |-> "llama-3.3-70b-versatile",
                 very_long |-> "llama-3.3-70b-versatile"]]

\* _get_default_config()["token_limits"], as the set of <<mode, model, limit>>
token_limits ==
    { <<"tldr", "llama-3.1-8b-instant", 800>>,
      <<"tldr", "gemma2-9b-it", 1000>>,
      <<"tldr", "meta-llama/llama-4-scout-17b-16e-instruct", 1200>>,
      <<"key_insights", "gemma2-9b-it", 2000>>,
      <<"key_insights", "meta-llama/llama-4-scout-17b-16e-instruct", 2500>>,
      <<"key_insights", "llama-3.3-70b-versatile", 3000>>,
      <<"key_insights", "deepseek-r1-distill-llama-70b", 3500>>,
      <<"comprehensive", "meta-llama/llama-4-scout-17b-16e-instruct", 4000>>,
      <<"comprehensive", "llama-3.3-70b-versatile", 4500>>,
      <<"comprehensive", "deepseek-r1-distill-llama-70b", 5000>>,
      <<"article", "meta-llama/llama-4-scout-17b-16e-instruct", 6000>>,
      <<"article", "deepseek-r1-distill-llama-70b", 7000>>,
      <<"custom", "llama-3.1-8b-instant", 800>>,
      <<"custom", "llama-3.3-70b-versatile", 10000>> }

\* _get_default_config()["temperature_settings"], in tenths
temperature_settings ==
    [tldr |-> 3, key_insights |-> 5, comprehensive |-> 7, article |-> 8, custom |-> 6]

\* the default of get_model_config when no token limit is configured
DEFAULT_MAX_TOKENS == 1000

\* a variant with exclusive upper bounds
categorize_video_length_Exclusive(duration_minutes) ==
    IF duration_minutes < 100 THEN "short"
    ELSE IF duration_minutes < 300 THEN "medium"
    ELSE IF duration_minutes < 600 THEN "long"
    ELSE "very_long"

\* _categorize_video_length: <= 10, <= 30, <= 60 minutes
categorize_video_length(duration_minutes) ==
    IF duration_minutes <= 100 THEN "short"
    ELSE IF duration_minutes <= 300 THEN "medium"
    ELSE IF duration_minutes <= 600 THEN "long"
    ELSE "very_long"

\* token_limits.get(primary_model), 1000 if it is None
TokenLimit(m, primary_model) ==
    IF \E t \in token_limits : t[1] = m /\ t[2] = primary_model
    THEN (CHOOSE t \in token_limits : t[1] = m /\ t[2] = primary_model)[3]
    ELSE DEFAULT_MAX_TOKENS

\* get_model_config(mode, video_duration)
get_model_config(m, d) ==
    LET length_category == categorize_video_length(d)
        primary_model == models[m][length_category]
    IN [primary_model |-> primary_model,
        max_tokens |-> TokenLimit(m, primary_model),
        temperature |-> temperature_settings[m]]

\* one call of get_model_config with the arguments of the state
GetModelConfig ==
    /\ Len(selections) < MaxSelections
    /\ selections' = Append(selections, get_model_config(sel_mode, video_duration))
    /\ UNCHANGED <<sel_mode, video_duration, notSelectorVars>>

(* PromptBuilder: app/services/prompt_builder.py, with the texts of app/prompts.py *)

INCLUDE_RESPONSE_FORMAT ==
    "Format your response in clean, readable MARKDOWN. Include relevant times"
    \o "tamps in the format [[123.4]] after key points to allow readers to jump "
    \o "to specific moments in the video."

PROGRAMMING_FORMAT_RESPONSE ==
    "Include practical code examples and implementations in MARKDOWN format"

MATH_FORMAT_RESPONSE ==
    "Include mathematical formulas, equations, and worked examples in MARKDOW"
    \o "N format"

PROGRAMMING_TAGS ==
    { "algorithms", "api development", "backend development", "coding basics",
      "coding interview", "data structures", "database design", "devops",
      "frontend development", "full stack", "javascript",
      "javascript tutorial", "machine learning", "programmer", "programming",
      "python programming", "react", "software engineering", "typescript",
      "web development" }

MATH_TAGS ==
    { "algebra", "calculus", "data analysis", "differential equations",
      "discrete math", "geometry", "graph theory", "linear algebra",
      "mathematical logic", "mathematical modeling", "mathematical proofs",
      "mathematics", "number theory", "numerical methods", "optimization",
      "probability", "set theory", "statistics", "topology", "trigonometry" }

PROMPT_TEMPLATES ==
    [ tldr |->
        "Write a concise summary capturing the essence of this content in 2-3 sen"
        \o "tences. Write as if you are the original creator sharing the main takeaw"
        \o "ay. Include 1-2 relevant timestamps [[123.4]] for the most important mom"
        \o "ents that capture the core message:\n\n{transcript}",
      key_insights |->
        "Present the 5-7 most valuable insights from this content. Write each as "
        \o "a key point with explanation, as if you're the creator highlighting what"
        \o " matters most. Include relevant timestamps [[123.4]] for each insight to"
        \o " help readers find specific moments in the video:\n\n{transcript}",
      comprehensive |->
        "Transform this content into a detailed, well-structured piece. Cover all"
        \o " main topics and important details as if you're the original creator exp"
        \o "anding on your ideas for readers. Include helpful timestamps [[123.4]] t"
        \o "hroughout your response for: - Major topic introductions - Key definitio"
        \o "ns and explanations - Important examples or case studies - Crucial insig"
        \o "hts or conclusions Aim for natural timestamp placement that enhances the"
        \o " reading experience:\n\n{transcript}",
      article |->
        "Rewrite this content as a comprehensive 2000+ word article. Expand on th"
        \o "e ideas, add context, draw connections, and provide deeper insights. Wri"
        \o "te in the creator's voice as if they're sharing their expertise with rea"
        \o "ders. Include strategic timestamps [[123.4]] for: - Introduction of majo"
        \o "r concepts - Supporting evidence and examples - Key insights and conclus"
        \o "ions - Actionable advice or recommendations Focus on creating valuable c"
        \o "ontent with timestamps that enhance navigation:\n\n{transcript}" ]

TIMESTAMP_PRESERVATION_INSTRUCTION ==
    "\n\nTIMESTAMP USAGE RULES:\n1. Use timestamps from the transcript to ref"
    \o "erence specific moments\n2. Copy timestamps exactly as they appear: [[12"
    \o "3.4]]\n3. Place timestamps after key points, not within sentences\n4. On"
    \o "ly include timestamps for content viewers would want to revisit\n5. Make"
    \o " timestamp placement feel natural, not forced\n6. Example: 'This concept"
    \o " is fundamental to understanding AI. [[456.7]]'\n7. Use the content size"
    \o " to determine the number of timestamps to use. "

SYSTEM_MESSAGES ==
    [ tldr |->
        "You are transforming video content into concise written form. Write natu"
        \o "rally in the creator's voice, not as a third-party summarizer. Aim for a"
        \o "t least 200 words while staying focused and direct. ",
      key_insights |->
        "You are the content creator sharing your key insights with readers. Pres"
        \o "ent your most important points clearly and engagingly. Write at least 50"
        \o "0 words, focusing on what truly matters. ",
      comprehensive |->
        "You are the content creator writing a comprehensive guide on your topic."
        \o " Share your knowledge thoroughly and systematically. Write at least 1000"
        \o " words, covering all important aspects in depth. ",
      article |->
        "You are the content creator writing an in-depth article based on your ex"
        \o "pertise. Expand on your ideas, provide context, and offer deeper insight"
        \o "s. Create engaging, informative content that stands alone as valuable re"
        \o "ading. " ]

DEFAULT_SYSTEM_MESSAGE ==
    "You are transforming video content into well-written material. Write nat"
    \o "urally as the original creator sharing knowledge with readers. Aim for a"
    \o "t least 200 words while maintaining the creator's authentic voice."

\* get_chunk_system_message: what is appended to the base system message for the
\* first chunk, and before previous_context for the last chunk and for a chunk in between
CHUNK_SYSTEM_SUFFIX ==
    [ first |->
        "\n\nThis is the first part of a longer content that will be processed in"
        \o " multiple chunks. Write your response as if it's the beginning of a comp"
        \o "lete piece, setting up the context and structure for what follows.",
      last |->
        "\n\nThis is the final part of the content. Write a conclusion that ties "
        \o "everything together, summarizes the key points, and provides a satisfyin"
        \o "g ending. Make sure to maintain consistency with the previous parts.\n\n"
        \o "Previous context to maintain continuity:\n",
      middle |->
        "\n\nYou are continuing from a previous part of the content. Maintain con"
        \o "sistency with the previous part and continue naturally.\n\nPrevious cont"
        \o "ext to maintain continuity:\n" ]

\* get_chunk_prompt: the text before the chunk, by mode and position
CHUNK_PROMPTS ==
    [ comprehensive_first |->
        "Transform this content into a detailed, well-structured piece. Cover all"
        \o " main topics and important details as if you're the original creator exp"
        \o "anding on your ideas for readers. This is the first part of a longer con"
        \o "tent:DO NOT CONCLUDE THE CONTENT. JUST START IT.\n\n",
      comprehensive_last |->
        "This is the final part of the content. Conclude the comprehensive analys"
        \o "is by tying together all major points, drawing connections between diffe"
        \o "rent sections, and providing a satisfying conclusion:CONCLUDE THE CONTEN"
        \o "T HERE.\n\n",
      comprehensive_middle |->
        "Continue the comprehensive analysis of this part of the content. Maintai"
        \o "n the same level of detail and structure as previous parts:CONTINUE THE "
        \o "CONTENT HERE.\n\n",
      article_first |->
        "Rewrite this content as a comprehensive article. Expand on the ideas, ad"
        \o "d context, draw connections, and provide deeper insights. Write in the c"
        \o "reator's voice as if they're sharing their expertise with readers. This "
        \o "is the first part of a longer content:DO NOT CONCLUDE THE CONTENT. JUST "
        \o "START IT.\n\n",
      article_last |->
        "This is the final part of the article. Write a conclusion that synthesiz"
        \o "es all major points, draws meaningful connections, and leaves readers wi"
        \o "th valuable insights:CONCLUDE THE CONTENT HERE.\n\n",
      article_middle |->
        "Continue writing the article, maintaining the same style and depth of an"
        \o "alysis. Ensure smooth transitions from previous parts:CONTINUE THE CONTE"
        \o "NT HERE.\n\n",
      generic |->
        "Process this part of the content:\n\n" ]

\* template.format(transcript=t) for a template whose only field is {transcript}
Format(template, t) ==
    LET at == Find(template, "{transcript}")
    IN Slice(template, 0, at) \o t \o SliceFrom(template, at + Len("{transcript}"))

\* get_system_message(mode, tags)
get_system_message(m, tg) ==
    (IF m \in DOMAIN SYSTEM_MESSAGES THEN SYSTEM_MESSAGES[m] ELSE DEFAULT_SYSTEM_MESSAGE)
    \o TIMESTAMP_PRESERVATION_INSTRUCTION
    \o (IF tg \cap PROGRAMMING_TAGS # {} THEN " " \o PROGRAMMING_FORMAT_RESPONSE
        ELSE IF tg \cap MATH_TAGS # {} THEN " " \o MATH_FORMAT_RESPONSE
        ELSE "")
    \o "\n\n" \o INCLUDE_RESPONSE_FORMAT

\* get_chunk_system_message(base_system_message, chunk_index, total_chunks, previous_context)
get_chunk_system_message(base_system_message, chunk_index, total_chunks, context) ==
    IF total_chunks > 1
    THEN IF chunk_index = 0 THEN base_system_message \o CHUNK_SYSTEM_SUFFIX.first
         ELSE IF chunk_index = total_chunks - 1
              THEN base_system_message \o CHUNK_SYSTEM_SUFFIX.last \o context
              ELSE base_system_message \o CHUNK_SYSTEM_SUFFIX.middle \o context
    ELSE base_system_message

\* get_chunk_prompt(mode, chunk, chunk_index, total_chunks)
get_chunk_prompt(m, chunk, chunk_index, total_chunks) ==
    IF m = "comprehensive"
    THEN IF chunk_index = 0 THEN CHUNK_PROMPTS.comprehensive_first \o chunk
         ELSE IF chunk_index = total_chunks - 1
              THEN CHUNK_PROMPTS.comprehensive_last \o chunk
              ELSE CHUNK_PROMPTS.comprehensive_middle \o chunk
    ELSE IF m = "article"
    THEN IF chunk_index = 0 THEN CHUNK_PROMPTS.article_first \o chunk
         ELSE IF chunk_index = total_chunks - 1
              THEN CHUNK_PROMPTS.article_last \o chunk
              ELSE CHUNK_PROMPTS.article_middle \o chunk
    ELSE CHUNK_PROMPTS.generic \o chunk

\* PromptBuilder(): self._components = {}
NoComponents ==
    [mode |-> None, transcript |-> None, custom_prompt |-> None, chunk |-> None,
     previous_context |-> None]

with_mode ==
    /\ build_pc = "building"
    /\ \E m \in Modes \cup {""} : components' = [components EXCEPT !.mode = Some(m)]
    /\ UNCHANGED <<builder_tags, build_pc, system_message, built, notBuilderVars>>

with_tags ==
    /\ build_pc = "building"
    /\ \E tg \in {{}, {"react"}, {"calculus", "cooking"}, {"cooking"}} : builder_tags' = tg
    /\ UNCHANGED <<components, build_pc, system_message, built, notBuilderVars>>

with_transcript ==
    /\ build_pc = "building"
    /\ \E t \in {"", "Hello world. [[0.0]]"} :
         components' = [components EXCEPT !.transcript = Some(t)]
    /\ UNCHANGED <<builder_tags, build_pc, system_message, built, notBuilderVars>>

\* if prompt is not None: self._components["custom_prompt"] = prompt
with_custom_prompt ==
    /\ build_pc = "building"
    /\ \E prompt \in {None, Some("List the tools.")} :
         components' = IF prompt # None
                       THEN [components EXCEPT !.custom_prompt = prompt]
                       ELSE components
    /\ UNCHANGED <<builder_tags, build_pc, system_message, built, notBuilderVars>>

with_chunk_info ==
    /\ build_pc = "building"
    /\ \E total_chunks \in {1, 3} : \E chunk_index \in 0..(total_chunks - 1) :
         components' = [components EXCEPT !.chunk =
                          Some([chunk |-> "part", chunk_index |-> chunk_index,
                                total_chunks |-> total_chunks])]
    /\ UNCHANGED <<builder_tags, build_pc, system_message, built, notBuilderVars>>

with_previous_context ==
    /\ build_pc = "building"
    /\ \E context \in {"", "Earlier text."} :
         components' = [components EXCEPT !.previous_context = Some(context)]
    /\ UNCHANGED <<builder_tags, build_pc, system_message, built, notBuilderVars>>

\* self._components.get("mode"), with "" for None
ModeOf(c) == IF c.mode = None THEN "" ELSE c.mode[1]

\* if not mode: raise ValueError(...)
ModeMissing_Never(c) == FALSE

ModeMissing(c) == ModeOf(c) = ""

ModeRequired == [type |-> "ValueError", msg |-> "Mode is required to build system message"]

\* _get_previous_context
get_previous_context(c) ==
    IF c.previous_context = None THEN "" ELSE c.previous_context[1]

\* _build_system_message once the mode is there
build_system_message(c, tg) ==
    LET base_system_message == get_system_message(ModeOf(c), tg)
    IN IF c.chunk # None
       THEN get_chunk_system_message(base_system_message, c.chunk[1].chunk_index,
                                     c.chunk[1].total_chunks, get_previous_context(c))
       ELSE base_system_message

\* which branch of _build_prompt produces the user message: a variant that looks at
\* the chunk first
PromptBranch_ChunkFirst(c) ==
    IF c.chunk # None THEN "chunk"
    ELSE IF c.custom_prompt # None /\ c.transcript # None THEN "custom"
    ELSE "template"

\* lines 100, 105 and 114 of _build_prompt
PromptBranch(c) ==
    IF c.custom_prompt # None /\ c.transcript # None THEN "custom"
    ELSE IF c.chunk # None THEN "chunk"
    ELSE "template"

\* get_prompt_template(mode).format(transcript=self._components["transcript"]) raises:
\* PROMPT_TEMPLATES.get gives None for a mode without a template, and the key
\* "transcript" may be missing
TemplateError(c) ==
    IF ModeOf(c) \notin DOMAIN PROMPT_TEMPLATES
    THEN [type |-> "AttributeError", msg |-> "'NoneType' object has no attribute 'format'"]
    ELSE IF c.transcript = None
    THEN [type |-> "KeyError", msg |-> "'transcript'"]
    ELSE NoError

\* _build_prompt once the mode is there and where it does not raise
build_prompt(c) ==
    CASE PromptBranch(c) = "custom" -> c.transcript[1] \o "\n\n" \o c.custom_prompt[1]
      [] PromptBranch(c) = "chunk" ->
            get_chunk_prompt(ModeOf(c), c.chunk[1].chunk, c.chunk[1].chunk_index,
                             c.chunk[1].total_chunks)
      [] OTHER -> Format(PROMPT_TEMPLATES[ModeOf(c)], c.transcript[1])

\* build(): Prompt(system_message=self._build_system_message(),
\*                 user_message=self._build_prompt())
build ==
    /\ build_pc = "building"
    /\ build_pc' = "built"
    /\ IF ModeMissing(components)
       THEN /\ built' = Raised(ModeRequired)
            /\ UNCHANGED system_message
       ELSE /\ system_message' = build_system_message(components, builder_tags)
            /\ built' = IF PromptBranch(components) = "template"
                            /\ TemplateError(components) # NoError
                         THEN Raised(TemplateError(components))
                         ELSE [kind |-> "return", type |-> "Prompt",
                               text |-> build_prompt(components)]
    /\ UNCHANGED <<components, builder_tags, notBuilderVars>>

(* infer_output_tokens: app/services/utils.py *)

LowerCase == "abcdefghijklmnopqrstuvwxyz"

UpperCase == "ABCDEFGHIJKLMNOPQRSTUVWXYZ"

\* str.lower() for ASCII text
RECURSIVE Lower(_)
Lower(s) ==
    IF s = "" THEN ""
    ELSE LET c == CharAt(s, 0)
         IN (IF Contains(UpperCase, c) THEN CharAt(LowerCase, Find(UpperCase, c)) ELSE c)
            \o Lower(SliceFrom(s, 1))

\* base_output_tokens = {...}.get(mode_str, 1024)
base_output_tokens(mode_str) ==
    CASE mode_str = "tldr" -> 1024
      [] mode_str = "key_insights" -> 2048
      [] mode_str = "comprehensive" -> 4096
      [] mode_str = "article" -> 4096
      [] OTHER -> 1024

\* input_scale_factor in units of 1/(5000 * CHAR_TO_TOKEN_RATIO), for a text of n
\* characters: 1.0 + ((n / CHAR_TO_TOKEN_RATIO - 1000) / 1000) * 0.2 without the cap
ScaleFactor_Uncapped(n) ==
    IF n > 1000 * CHAR_TO_TOKEN_RATIO
    THEN 5000 * CHAR_TO_TOKEN_RATIO + (n - 1000 * CHAR_TO_TOKEN_RATIO)
    ELSE 5000 * CHAR_TO_TOKEN_RATIO

\* the same with min(3.0, ...)
ScaleFactor(n) ==
    IF n > 1000 * CHAR_TO_TOKEN_RATIO
    THEN Min(3 * 5000 * CHAR_TO_TOKEN_RATIO,
             5000 * CHAR_TO_TOKEN_RATIO + (n - 1000 * CHAR_TO_TOKEN_RATIO))
    ELSE 5000 * CHAR_TO_TOKEN_RATIO

\* int(base_output_tokens * input_scale_factor)
infer_output_tokens(m, transcript) ==
    (base_output_tokens(Lower(m)) * ScaleFactor(Len(transcript)))
        \div (5000 * CHAR_TO_TOKEN_RATIO)

\* one call of infer_output_tokens
InferOutputTokens ==
    /\ tok_pc = "called"
    /\ max_output_tokens' = infer_output_tokens(tok_mode, tok_text)
    /\ tok_pc' = "returned"
    /\ UNCHANGED <<tok_mode, tok_text, notTokenVars>>

(* Specifications *)

\* a fresh PromptBuilder
BuilderIdle ==
    /\ components = NoComponents
    /\ builder_tags = {}
    /\ build_pc = "idle"
    /\ system_message = ""
    /\ built = NoResult

\* get_model_config has not been called
SelectorIdle ==
    /\ sel_mode = "tldr"
    /\ video_duration = 0
    /\ selections = << >>

\* no grouping is running
GroupLocalsInit ==
    /\ seg_idx = 1
    /\ current_paragraph = << >>
    /\ last_timestamp = None
    /\ formatted_segments = << >>
    /\ boundaries = << >>
    /\ transcript_out = ""

GroupIdle ==
    /\ adapter = "supabase"
    /\ segments = << >>
    /\ group_pc = "idle"
    /\ GroupLocalsInit

\* no _retry_operation is running
RetryIdle ==
    /\ retry_pc = "idle"
    /\ attempt = 0
    /\ delay = INITIAL_DELAY
    /\ fetch_log = << >>
    /\ sleeps = << >>
    /\ retry_result = NoResult

\* no call of a track_usage wrapper is in progress
UsageIdle ==
    /\ profile_credits = None
    /\ u_pc = [r \in Requests |-> "idle"]
    /\ current_credits = [r \in Requests |-> 0]
    /\ u_events = [r \in Requests |-> << >>]
    /\ u_result = [r \in Requests |-> NoResult]

\* no provider has been set up
ConfigIdle == available = << >>

\* no wrapper call is being accounted for
LedgerIdle == initial_credits = None

\* infer_output_tokens has not been called
TokenIdle ==
    /\ tok_mode = "tldr"
    /\ tok_text = ""
    /\ tok_pc = "idle"
    /\ max_output_tokens = 0

AuxIdle ==
    /\ UsageIdle /\ RetryIdle /\ GroupIdle /\ SelectorIdle /\ BuilderIdle
    /\ ConfigIdle /\ TokenIdle /\ LedgerIdle

\* no fetch_transcript is running
ChainIdle ==
    /\ processors = << >>
    /\ chain_pc = "idle"
    /\ proc_idx = 1
    /\ call_log = << >>
    /\ last_error = NoError
    /\ chain_result = NoResult

\* the locals of process before it runs
ProcessLocalsInit ==
    /\ path = "ROUTING"
    /\ max_chars = 0
    /\ chunks = << >>
    /\ current_pos = 0
    /\ i = 0
    /\ combined_response = ""
    /\ previous_context = ""
    /\ llm_calls = << >>
    /\ chunk_results = << >>
    /\ stored = << >>
    /\ llm_outcomes = << >>
    /\ pacing = << >>
    /\ result = NoResult

\* no process is running
ProcessIdle ==
    /\ transcript_text = ""
    /\ mode = "comprehensive"
    /\ custom_prompt = None
    /\ stream = FALSE
    /\ duration = 0
    /\ max_tokens = 0
    /\ pc = "idle"
    /\ ProcessLocalsInit

\* self.processors holds 0..MaxAdapters adapters; position k holds adapter k
InitChain ==
    /\ processors \in {[k \in 1..n |-> k] : n \in 0..MaxAdapters}
    /\ chain_pc = "loop"
    /\ proc_idx = 1
    /\ call_log = << >>
    /\ last_error = NoError
    /\ chain_result = NoResult
    /\ ProcessIdle
    /\ AuxIdle

NextChain == TryProcessorReturn \/ TryProcessorRaise \/ RaiseAllFailed \/ RaiseNoProcessors

SpecChain == InitChain /\ [][NextChain]_vars

Alphabet == {"a", ".", "!", " ", "\n", ";"}

\* the strings over Alphabet of length at most n
RECURSIVE Strings(_)
Strings(n) ==
    IF n = 0 THEN {""}
    ELSE LET S == Strings(n - 1) IN S \cup {s \o c : s \in S, c \in Alphabet}

\* _process_chunked on every text of at most MaxTextLen characters
InitSplit ==
    /\ transcript_text \in Strings(MaxTextLen)
    /\ mode = "comprehensive"
    /\ custom_prompt = None
    /\ stream = FALSE
    /\ duration = 3000
    /\ max_tokens \in 0..MaxTokens
    /\ pc = "route"
    /\ ProcessLocalsInit
    /\ ChainIdle
    /\ AuxIdle

NextSplit == RouteChunked \/ SplitStep \/ SplitDone

SpecSplit == InitSplit /\ [][NextSplit]_vars

\* transcripts that split into 0, 1, 2 and 3 chunks of at most 4 characters
SampleTranscripts == {"", "ab", "ab cd", "ab cd ef"}

Durations == {300, 2400, 2401}

CustomPrompts == {None, Some("List the tools.")}

Init ==
    /\ transcript_text \in SampleTranscripts
    /\ mode \in Modes
    /\ custom_prompt \in CustomPrompts
    /\ stream \in BOOLEAN
    /\ duration \in Durations
    /\ max_tokens \in 0..MaxTokens
    /\ pc = "route"
    /\ ProcessLocalsInit
    /\ ChainIdle
    /\ AuxIdle

Next ==
    \/ SinglePassIssue \/ SinglePassBuildFails \/ SinglePassReturn \/ SinglePassRaise
    \/ RouteChunked \/ SplitStep \/ SplitDone
    \/ ChunkSleep \/ ChunkIssue \/ ChunkReturn \/ ChunkRaise
    \/ FinalSleep \/ FinalIssue \/ FinalBuildFails \/ FinalReturn \/ FinalRaise

Spec == Init /\ [][Next]_vars

\* MaxRequests calls of one user's track_usage wrapper, interleaved at their awaits
InitUsage ==
    /\ profile_credits \in {None} \cup {Some(c) : c \in 0..MaxCredits}
    /\ initial_credits = profile_credits
    /\ u_pc = [r \in Requests |-> "idle"]
    /\ current_credits = [r \in Requests |-> 0]
    /\ u_events = [r \in Requests |-> << >>]
    /\ u_result = [r \in Requests |-> NoResult]
    /\ ChainIdle
    /\ ProcessIdle
    /\ ConfigIdle
    /\ TokenIdle
    /\ RetryIdle
    /\ GroupIdle
    /\ SelectorIdle
    /\ BuilderIdle

NextUsage ==
    \E r \in Requests :
        \/ CallWrapper(r) \/ CheckPasses(r) \/ CheckFails(r)
        \/ CallFunc(r) \/ FuncReturns(r) \/ FuncRaises(r)
        \/ DeductRead(r) \/ DeductUpdate(r)

SpecUsage == InitUsage /\ [][NextUsage]_vars

\* self._retry_operation(_inner_fetch): the defaults max_retries=4, delay=5
InitRetry ==
    /\ retry_pc = "try"
    /\ attempt = 0
    /\ delay = INITIAL_DELAY
    /\ fetch_log = << >>
    /\ sleeps = << >>
    /\ retry_result = NoResult
    /\ ChainIdle
    /\ ProcessIdle
    /\ ConfigIdle
    /\ TokenIdle
    /\ LedgerIdle
    /\ UsageIdle
    /\ GroupIdle
    /\ SelectorIdle
    /\ BuilderIdle

NextRetry == FetchReturns \/ FetchRaisesRetry \/ FetchRaisesGiveUp

SpecRetry == InitRetry /\ [][NextRetry]_vars

SegmentTexts == {"hi", "ok.", "no! ", ""}

\* 0, 1, 40, 41 and 80 seconds
SegmentStarts == {0, 10, 400, 410, 800}

\* the lists of 1..n segments whose start times do not decrease
SegmentLists(n) ==
    UNION { { sl \in [1..k -> [text : SegmentTexts, start : SegmentStarts]] :
                \A j \in 1..(k - 1) : sl[j].start <= sl[j + 1].start }
            : k \in 1..n }

\* each adapter's grouping on every segment list of at most MaxSegments segments
InitGroup ==
    /\ adapter \in Adapters
    /\ segments \in SegmentLists(MaxSegments)
    /\ group_pc = "loop"
    /\ GroupLocalsInit
    /\ ChainIdle
    /\ ProcessIdle
    /\ ConfigIdle
    /\ TokenIdle
    /\ LedgerIdle
    /\ UsageIdle
    /\ RetryIdle
    /\ SelectorIdle
    /\ BuilderIdle

NextGroup ==
    \/ GroupSegmentCache \/ GroupSegmentThirdParty \/ GroupSegmentNative
    \/ GroupSegmentYtdlp \/ GroupFinish \/ GroupFinishYtdlp

SpecGroup == InitGroup /\ [][NextGroup]_vars

\* durations around the bucket limits of 10, 30 and 60 minutes, in tenths of a minute
VideoDurations == {0, 5, 99, 100, 101, 299, 300, 301, 599, 600, 601, 1200}

\* repeated calls of get_model_config with one (mode, duration)
InitSelector ==
    /\ sel_mode \in Modes
    /\ video_duration \in VideoDurations
    /\ selections = << >>
    /\ ChainIdle
    /\ ProcessIdle
    /\ ConfigIdle
    /\ TokenIdle
    /\ LedgerIdle
    /\ UsageIdle
    /\ RetryIdle
    /\ GroupIdle
    /\ BuilderIdle

NextSelector == GetModelConfig

SpecSelector == InitSelector /\ [][NextSelector]_vars

\* PromptBuilder() followed by any calls of the with_ methods and one build()
InitBuilder ==
    /\ components = NoComponents
    /\ builder_tags = {}
    /\ build_pc = "building"
    /\ system_message = ""
    /\ built = NoResult
    /\ ChainIdle
    /\ ProcessIdle
    /\ ConfigIdle
    /\ TokenIdle
    /\ LedgerIdle
    /\ UsageIdle
    /\ RetryIdle
    /\ GroupIdle
    /\ SelectorIdle

NextBuilder ==
    \/ with_mode \/ with_tags \/ with_transcript \/ with_custom_prompt
    \/ with_chunk_info \/ with_previous_context \/ build

SpecBuilder == InitBuilder /\ [][NextBuilder]_vars

\* TranscriptProcessor() as __init__ builds it; every provider is up or down
InitConfigured ==
    /\ processors = ConfiguredProcessors
    /\ available \in [DOMAIN ProviderAdapters -> AdapterOutcomes]
    /\ chain_pc = "loop"
    /\ proc_idx = 1
    /\ call_log = << >>
    /\ last_error = NoError
    /\ chain_result = NoResult
    /\ ProcessIdle
    /\ UsageIdle /\ RetryIdle /\ GroupIdle /\ SelectorIdle /\ BuilderIdle /\ TokenIdle
    /\ LedgerIdle

NextConfigured == ConfiguredReturn \/ ConfiguredRaise \/ RaiseAllFailed

SpecConfigured == InitConfigured /\ [][NextConfigured]_vars

\* a text of n characters
RECURSIVE TextOfLength(_)
TextOfLength(n) ==
    IF n = 0 THEN ""
    ELSE IF n % 2 = 0 THEN LET half == TextOfLength(n \div 2) IN half \o half
    ELSE "a" \o TextOfLength(n - 1)

TokenModes == Modes \cup {"TLDR", "Article", "summary", ""}

TokenLengths ==
    {0, 1, 3999, 4000, 4001, 4019, 4020, 4039, 4040, 5000, 10000, 20000, 39999, 40000,
     43980, 43999, 44000, 44001, 50000, 60000}

InitTokens ==
    /\ tok_mode \in TokenModes
    /\ tok_text \in {TextOfLength(n) : n \in TokenLengths}
    /\ tok_pc = "called"
    /\ max_output_tokens = 0
    /\ ChainIdle
    /\ ProcessIdle
    /\ UsageIdle /\ RetryIdle /\ GroupIdle /\ SelectorIdle /\ BuilderIdle /\ ConfigIdle
    /\ LedgerIdle

NextTokens == InferOutputTokens

SpecTokens == InitTokens /\ [][NextTokens]_vars

\* streaming requests of at most 2400 seconds over transcripts around the cap
LongTranscriptLengths == {0, 5, 39999, 40000, 40001, 40002, 50000}

InitSinglePass ==
    /\ transcript_text \in {TextOfLength(n) : n \in LongTranscriptLengths}
    /\ mode \in Modes
    /\ custom_prompt \in CustomPrompts
    /\ stream = TRUE
    /\ duration \in {300, 2400}
    /\ max_tokens \in 0..MaxTokens
    /\ pc = "route"
    /\ ProcessLocalsInit
    /\ ChainIdle
    /\ AuxIdle

NextSinglePass ==
    SinglePassIssue \/ SinglePassBuildFails \/ SinglePassReturn \/ SinglePassRaise

SpecSinglePass == InitSinglePass /\ [][NextSinglePass]_vars

(* Properties of the fallback chain, under SpecChain *)

LastCall == call_log[Len(call_log)]

\* C1: the adapters are invoked one at a time in list order, each at most once; no
\* adapter is invoked after the first one that does not raise; and when the chain
\* returns, it returns exactly the result of that adapter.
C1_FirstSuccessWins ==
    /\ Len(call_log) <= Len(processors)
    /\ \A j \in 1..Len(call_log) : call_log[j].adapter = processors[j]
    /\ \A j \in 1..(Len(call_log) - 1) : ~call_log[j].ok
    /\ chain_pc = "returned" <=> (call_log # << >> /\ LastCall.ok)
    /\ chain_pc = "returned" => chain_result = Returned(LastCall.text)

\* adapter 1 failed, adapter 2 succeeded, adapter 3 was not invoked
C1_Witness ==
    /\ chain_pc = "returned"
    /\ Len(processors) >= 3
    /\ Len(call_log) = 2
    /\ ~call_log[1].ok
    /\ chain_result.text = "Hello. [[0.0]]"

\* C2: the aggregate "all methods failed" error is raised only when every configured
\* adapter has been invoked and has failed, and its message contains the message of
\* the last adapter's failure.
C2_AllFailedOnlyWhenAllFailed ==
    chain_pc = "raised_all_failed" =>
        /\ Len(processors) >= 1
        /\ Len(call_log) = Len(processors)
        /\ \A j \in 1..Len(call_log) : call_log[j].adapter = processors[j] /\ ~call_log[j].ok
        /\ chain_result.kind = "raise"
        /\ Contains(chain_result.text, LastCall.text)
        /\ chain_result = Raised(AllFailedError([type |-> LastCall.type, msg |-> LastCall.text]))

\* several adapters failed with different messages and the aggregate error was raised
C2_Witness ==
    /\ chain_pc = "raised_all_failed"
    /\ Len(processors) >= 2
    /\ LastCall.text = "Unable to fetch transcript"
    /\ call_log[1].text = "None"

RaisedPcs == {"raised_all_failed", "raised_no_processors"}

\* C3: with an empty adapter list fetch_transcript fails with an error that differs
\* from every error it raises after the adapters of a non-empty list all failed, and
\* with a non-empty list it never fails with the error of the empty list.
C3_EmptyListErrorDistinct ==
    /\ (chain_pc \in RaisedPcs /\ processors = << >>) =>
            /\ chain_result.kind = "raise"
            /\ \A e \in AdapterErrors : chain_result # Raised(AllFailedError(e))
    /\ (chain_pc \in RaisedPcs /\ processors # << >>) =>
            /\ chain_result.kind = "raise"
            /\ chain_result # Raised(NoProcessorsError)

\* fetch_transcript has failed on an empty adapter list
C3_Witness ==
    /\ processors = << >>
    /\ chain_pc = "raised_no_processors"
    /\ chain_result.kind = "raise"

(* Properties of the splitting loop, under SpecSplit *)

Concat(parts) == Join(parts, "")

SplitFinished == path = "CHUNKED" /\ pc \notin {"route", "split"}

\* C4: for max_chars > 0 the chunks are contiguous, non-overlapping slices of the text:
\* at every point of the loop their concatenation is the text up to current_pos, and
\* when the loop has ended it is the whole text.
C4_ChunksConcatenateToText ==
    (path = "CHUNKED" /\ max_chars > 0) =>
        /\ current_pos <= Len(transcript_text)
        /\ Concat(chunks) = Slice(transcript_text, 0, current_pos)
        /\ \A j \in 1..Len(chunks) :
              chunks[j] = Slice(transcript_text, Len(Concat(SubSeq(chunks, 1, j - 1))),
                                Len(Concat(SubSeq(chunks, 1, j))))
        /\ SplitFinished => Concat(chunks) = transcript_text

\* a text was split into at least three chunks, one of them cut after a stop word
C4_Witness ==
    /\ SplitFinished
    /\ max_chars > 0
    /\ Len(chunks) >= 3
    /\ \E j \in 1..(Len(chunks) - 1) : Len(chunks[j]) >= 2 /\ SliceFrom(chunks[j], Len(chunks[j]) - 2) = ". "

\* C5: for max_chars > 0 every chunk except possibly the last has at most max_chars
\* characters.
C5_ChunkLengthBounded ==
    (path = "CHUNKED" /\ max_chars > 0) =>
        \A j \in 1..(Len(chunks) - 1) : Len(chunks[j]) <= max_chars

\* a text longer than max_chars was split, with a hard cut at exactly max_chars
C5_Witness ==
    /\ SplitFinished
    /\ max_chars > 0
    /\ Len(transcript_text) > max_chars
    /\ Len(chunks) >= 2
    /\ Len(chunks[1]) = max_chars
    /\ ~Contains(chunks[1], " ")

\* C6: while text remains, each iteration of the splitting loop advances current_pos
\* by at least one character, for every max_tokens (so the loop terminates).
C6_SplitAdvances ==
    [][(pc = "split" /\ current_pos < Len(transcript_text)) => current_pos' > current_pos]_vars

(* Properties of process, under Spec *)

ShortModes == {"tldr", "key_insights"}

\* C7 as stated: a request with duration below 2400 and mode TLDR or KEY_INSIGHTS takes
\* the SINGLE_PASS path and issues exactly one LLM call, for either value of stream.
C7_ShortModesSinglePass ==
    (pc # "route" /\ duration < 2400 /\ mode \in ShortModes) =>
        /\ path = "SINGLE_PASS"
        /\ Len(llm_calls) = 1

\* C7 amended: a request with duration below 2400 and mode TLDR or KEY_INSIGHTS takes
\* the SINGLE_PASS path when stream is set, issuing exactly one LLM call, made on the
\* (possibly truncated) full transcript; when stream is not set it takes the CHUNKED path.
C7_StreamingShortModesSinglePass ==
    (pc # "route" /\ duration < 2400 /\ mode \in ShortModes) =>
        IF stream
        THEN /\ path = "SINGLE_PASS"
             /\ pc \in {"single_call", "done", "failed"}
             /\ llm_calls = <<LLMCall("single", 0, truncate_transcript(transcript_text), TRUE, "")>>
             /\ result.kind = "raise" => \E e \in LLMErrors : result = Raised(e)
        ELSE path = "CHUNKED"

\* a streaming TLDR request of 5 minutes has returned after its single call
C7_Witness ==
    /\ pc = "done"
    /\ mode = "tldr"
    /\ duration = 300
    /\ stream
    /\ path = "SINGLE_PASS"
    /\ Len(llm_calls) = 1
    /\ transcript_text # ""

ChunkLoopFinished == path = "CHUNKED" /\ pc \in {"final_sleep", "final_build", "final_call", "done", "failed"}

\* the text chunk j (1-based) contributes: its output, conclusion-stripped when the
\* chunk is not the last, and the empty string when its call raised
ChunkContribution(j) ==
    IF ~chunk_results[j].ok THEN ""
    ELSE IF j < Len(chunks) THEN StripConclusion(chunk_results[j].text, 1)
    ELSE chunk_results[j].text

\* C8: whatever chunk calls raise, the request does not fail because of them, and after
\* the chunk loop the combined buffer contains the output of every chunk whose call
\* succeeded.
C8_ChunkFailuresTolerated ==
    ChunkLoopFinished =>
        /\ \A e \in LLMErrors : result # Raised(e)
        /\ \A j \in 1..Len(chunk_results) :
              chunk_results[j].ok => Contains(combined_response, ChunkContribution(j))

HasHeading(r) == \E k \in 1..Len(CONCLUSION_MARKERS) : Contains(r, CONCLUSION_MARKERS[k])

\* where the first conclusion heading of r begins
HeadingStart(r) ==
    SetMin({Find(r, CONCLUSION_MARKERS[k]) :
                k \in {m \in 1..Len(CONCLUSION_MARKERS) : Contains(r, CONCLUSION_MARKERS[m])}})

\* C9: for every non-final chunk whose output contains a conclusion heading, the text
\* stored in the combined buffer is exactly the trimmed part of the output before the
\* heading, with no character of the heading left.
C9_ConclusionHeadingRemoved ==
    \A j \in 1..Len(stored) :
        (j < Len(chunks) /\ chunk_results[j].ok /\ HasHeading(chunk_results[j].text)) =>
            stored[j] = Some(Strip(Slice(chunk_results[j].text, 0,
                                         HeadingStart(chunk_results[j].text))))

\* the contributions of chunks 1..n, each preceded by the separator the loop inserts
RECURSIVE JoinedContributions(_)
JoinedContributions(n) ==
    IF n = 0 THEN "" ELSE JoinedContributions(n - 1) \o "\n\n" \o ChunkContribution(n)

\* C10: with n >= 1 chunks, the transcript of the final synthesis call is the
\* concatenation in chunk order of the contributions of all n chunks (compared up to
\* surrounding whitespace).
C10_FinalCallGetsAllChunks ==
    \A c \in 1..Len(llm_calls) :
        (llm_calls[c].kind = "final" /\ Len(chunks) >= 1) =>
            Strip(llm_calls[c].text) = Strip(JoinedContributions(Len(chunks)))

\* the final synthesis call of a CHUNKED request was issued and it raised
FinalCallRaised ==
    /\ path = "CHUNKED"
    /\ Len(llm_calls) > 0
    /\ llm_calls[Len(llm_calls)].kind = "final"
    /\ Len(llm_outcomes) = Len(llm_calls)
    /\ ~llm_outcomes[Len(llm_outcomes)].ok

\* what the chunk loop put into the buffer: "\n\n" and the text kept of each stored chunk
RECURSIVE AccumulatedBuffer(_)
AccumulatedBuffer(n) ==
    IF n = 0 THEN ""
    ELSE AccumulatedBuffer(n - 1)
         \o (IF stored[n] = None THEN "" ELSE "\n\n" \o stored[n][1])

\* C11: in a CHUNKED request whose final synthesis call raises, process does not fail:
\* it returns the combined buffer accumulated from the chunk outputs, trimmed.
C11_FinalFailureFallsBack ==
    FinalCallRaised =>
        /\ pc = "done"
        /\ result.kind = "return"
        /\ combined_response = AccumulatedBuffer(Len(stored))
        /\ result.text = Strip(combined_response)

\* the final call raised after two chunks, and the trimmed buffer that was returned is
\* neither empty nor the untrimmed buffer
C11_Witness ==
    /\ FinalCallRaised
    /\ Len(chunks) = 2
    /\ result.kind = "return"
    /\ result.text # ""
    /\ result.text # combined_response

\* an LLM call has been issued and has not ended yet
Outstanding == Len(llm_calls) - Len(llm_outcomes)

\* C12: at most one LLM call of a request is outstanding at any time: when the request
\* for chunk k (k > 0) is issued the call for chunk k-1 has ended, and when the final
\* synthesis request is issued the call of the last chunk has ended.
C12_CallsStrictlySequential ==
    /\ Outstanding \in {0, 1}
    /\ \A k \in 1..Len(llm_calls) :
         /\ llm_calls[k].kind = "chunk" => llm_calls[k].index = k - 1
         /\ llm_calls[k].kind = "final" => k = Len(chunks) + 1
    /\ path = "CHUNKED" =>
         /\ Len(chunk_results) = Min(Len(llm_outcomes), Len(chunks))
         /\ pc = "chunk_call" => Len(llm_outcomes) = i /\ Len(llm_calls) = i + 1
         /\ pc = "final_call" =>
                Len(llm_outcomes) = Len(chunks) /\ Len(llm_calls) = Len(chunks) + 1

\* the request for the third chunk is outstanding and the two calls before it have ended
C12_Witness ==
    /\ pc = "chunk_call"
    /\ i = 2
    /\ Len(llm_calls) = 3
    /\ Len(llm_outcomes) = 2

(* Properties of track_usage, under SpecUsage *)

\* the positions of the entries ev in the history of request r
Positions(r, ev) == {k \in 1..Len(u_events[r]) : u_events[r][k].ev = ev}

Happened(r, ev) == Positions(r, ev) # {}

\* C13: the credit check completes before the wrapped operation starts; after a failed
\* check (no profile, or credits <= 0) the operation is not run and no deduction is
\* requested; when the operation raises, the same error is re-raised and no deduction
\* is requested; when it succeeds exactly one deduction is requested, after its return.
C13_CheckRunDeduct ==
    \A r \in Requests :
        LET h == u_events[r]
        IN /\ \A k \in Positions(r, "func_started") :
                k = 2 /\ h[1].ev = "check_passed" /\ h[1].credits > 0
           /\ Happened(r, "check_failed") =>
                /\ Len(h) = 1
                /\ u_pc[r] = "raised"
                /\ u_result[r] = Raised(h[1].err)
                /\ h[1].err \in {ProfileNotFound, InsufficientCredits}
           /\ \A k \in Positions(r, "func_raised") :
                /\ k = Len(h)
                /\ ~Happened(r, "deduct_requested")
                /\ u_pc[r] = "raised"
                /\ u_result[r] = Raised(h[k].err)
           /\ \A k \in Positions(r, "deduct_requested") :
                k = 4 /\ h[3].ev = "func_returned" /\ Len(h) = 4
           /\ u_pc[r] = "returned" =>
                /\ Cardinality(Positions(r, "deduct_requested")) = 1
                /\ u_result[r] = Returned("result")
           /\ u_pc[r] \in {"check", "idle"} => h = << >>

\* one call returned after its single deduction, another re-raised the error of the
\* wrapped operation without deducting
C13_Witness ==
    \E r1, r2 \in Requests :
        /\ u_pc[r1] = "returned"
        /\ Happened(r1, "deduct_requested")
        /\ u_pc[r2] = "raised"
        /\ Happened(r2, "func_raised")
        /\ u_result[r2] = Raised([type |-> "ValueError", msg |-> "Unable to fetch transcript"])

(* Properties of _retry_operation, under SpecRetry *)

\* the waits before attempts 2, 3 and 4
Backoff == <<5, 10, 20>>

TransientFailure(entry) ==
    /\ entry.kind = "raise"
    /\ \E k \in 0..Len(entry.text) : Slice(entry.text, k, k + 16) = "no element found"

\* C14: func is called at most 4 times; a retry happens only after a 'no element
\* found' error, after waiting 5, 10 and 20 seconds before attempts 2, 3 and 4; any
\* other error, and a fourth transient error, end the operation with a failure at
\* that attempt; a success at attempt k is returned with no further attempt.
C14_RetryOnlyTransient ==
    LET n == Len(fetch_log)
    IN /\ n <= 4
       /\ \A k \in 1..(n - 1) : TransientFailure(fetch_log[k])
       /\ retry_pc = "try" =>
            /\ sleeps = SubSeq(Backoff, 1, n)
            /\ \A k \in 1..n : TransientFailure(fetch_log[k])
       /\ retry_pc # "try" =>
            /\ n >= 1
            /\ sleeps = SubSeq(Backoff, 1, n - 1)
            /\ fetch_log[n].kind = "return" =>
                  retry_pc = "returned" /\ retry_result = fetch_log[n]
            /\ fetch_log[n].kind = "raise" =>
                  /\ retry_pc = "raised"
                  /\ retry_result = Raised(UnableToFetch)
                  /\ TransientFailure(fetch_log[n]) => n = 4
       /\ n >= 1 /\ ~TransientFailure(fetch_log[n]) => retry_pc # "try"
       /\ n = 4 => retry_pc # "try"

\* three transient failures, the waits 5, 10 and 20, and a success at the fourth attempt
C14_Witness ==
    /\ Len(fetch_log) = 4
    /\ sleeps = <<5, 10, 20>>
    /\ retry_pc = "returned"
    /\ retry_result = Returned("transcript_list_b")

(* Properties of the paragraph grouping, under SpecGroup *)

\* C15: in the output of every paragraph-grouping adapter, a paragraph is closed with
\* a timestamp marker only after a segment whose text ends with '.', '!' or '?', or
\* whose start exceeds the timestamp of the last emitted paragraph by more than 30
\* seconds (a first paragraph, with none emitted before it, is let through), or that
\* is the final segment.
C15_BoundaryOnlyAtRule ==
    \A j \in 1..Len(boundaries) :
        LET b == boundaries[j]
        IN b.marker # None =>
             \/ EndsWithSentenceEnding(Strip(segments[b.after].text))
             \/ b.previous = None
             \/ b.start - b.previous[1] > 300
             \/ b.after = Len(segments)

\* a text that is not empty and carries no sentence-ending punctuation
PlainText(text) == Strip(text) # "" /\ ~EndsWithSentenceEnding(Strip(text))

\* C16: for every adapter and every start time of the first segment, two segments 40
\* seconds apart and without sentence-ending punctuation come out as two paragraphs,
\* each with its own timestamp marker, the two markers being distinct.
C16_GapSplitsParagraphs ==
    (/\ group_pc = "done"
     /\ Len(segments) = 2
     /\ PlainText(segments[1].text) /\ PlainText(segments[2].text)
     /\ segments[2].start - segments[1].start = 400)
    => /\ Len(boundaries) = 2
       /\ boundaries[1].marker # None
       /\ boundaries[2].marker # None
       /\ boundaries[1].marker # boundaries[2].marker

(* Properties of ModelSelector, under SpecSelector *)

\* the bucket of a duration of d tenths of a minute, by its range
Bucket(d) ==
    CASE d \in 0..100 -> "short"
      [] d \in 101..300 -> "medium"
      [] d \in 301..600 -> "long"
      [] OTHER -> "very_long"

\* C17: get_model_config is a function of (mode, duration): the duration is bucketed
\* short <= 10, medium <= 30, long <= 60, very_long > 60 minutes, so exactly 10, 30 and
\* 60 minutes select the short, medium and long model, and repeated calls with the
\* same inputs give the same ModelConfig.
C17_BucketsInclusive ==
    \A k \in 1..Len(selections) :
        /\ selections[k].primary_model = models[sel_mode][Bucket(video_duration)]
        /\ video_duration = 100 => selections[k].primary_model = models[sel_mode].short
        /\ video_duration = 300 => selections[k].primary_model = models[sel_mode].medium
        /\ video_duration = 600 => selections[k].primary_model = models[sel_mode].long
        /\ selections[k].temperature = temperature_settings[sel_mode]
        /\ selections[k] = selections[1]

\* two calls for key_insights at exactly 60 minutes chose the long model
C17_Witness ==
    /\ Len(selections) = 2
    /\ sel_mode = "key_insights"
    /\ video_duration = 600
    /\ selections[2].primary_model = "llama-3.3-70b-versatile"
    /\ selections[2].max_tokens = 3000

(* Properties of PromptBuilder, under SpecBuilder *)

\* C18: build fails whenever no mode was set on the builder, whatever other components
\* were set, and returns no Prompt in that case.
C18_BuildNeedsMode ==
    (build_pc = "built" /\ components.mode = None) =>
        /\ built.kind = "raise"
        /\ built.type = "ValueError"
        /\ built.text = "Mode is required to build system message"

\* build was called with tags, transcript, chunk info, previous context and custom
\* prompt all set and no mode, and it raised
C18_Witness ==
    /\ build_pc = "built"
    /\ components.mode = None
    /\ components.transcript # None
    /\ components.custom_prompt # None
    /\ components.chunk # None
    /\ components.previous_context # None
    /\ builder_tags # {}
    /\ built.kind = "raise"

\* s ends with suffix
EndsWith(s, suffix) ==
    Len(s) >= Len(suffix) /\ Slice(s, Len(s) - Len(suffix), Len(s)) = suffix

\* C19: the user message is transcript + two newlines + custom prompt when both a
\* custom prompt and a transcript were supplied, also with chunk info; otherwise, with
\* chunk info, the chunk template of the mode and of the chunk's position; otherwise
\* the mode's default template formatted with the transcript.
C19_UserMessagePrecedence ==
    (build_pc = "built" /\ ModeOf(components) # "") =>
        LET c == components
            both == c.custom_prompt # None /\ c.transcript # None
        IN /\ both =>
                /\ built.kind = "return"
                /\ built.text = c.transcript[1] \o "\n\n" \o c.custom_prompt[1]
           /\ (~both /\ c.chunk # None) =>
                /\ built.kind = "return"
                /\ built.text = get_chunk_prompt(c.mode[1], c.chunk[1].chunk,
                                                 c.chunk[1].chunk_index,
                                                 c.chunk[1].total_chunks)
                /\ EndsWith(built.text, "\n\n" \o c.chunk[1].chunk)
                /\ c.mode[1] = "article" /\ c.chunk[1].chunk_index = 0 =>
                      Contains(built.text, "This is the first part of a longer content")
                /\ c.mode[1] = "article" /\ c.chunk[1].chunk_index = 2 =>
                      Contains(built.text, "This is the final part of the article")
                /\ c.mode[1] = "tldr" =>
                      built.text = "Process this part of the content:\n\n" \o c.chunk[1].chunk
           /\ (~both /\ c.chunk = None /\ built.kind = "return") =>
                /\ c.transcript # None
                /\ c.mode[1] \in PROMPT_TEMPLATE_MODES
                /\ built.text = Format(PROMPT_TEMPLATES[c.mode[1]], c.transcript[1])
                /\ EndsWith(built.text, ":\n\n" \o c.transcript[1])

\* a custom prompt, a transcript and chunk info were all supplied and the user message
\* is the transcript, two newlines and the custom prompt
C19_Witness ==
    /\ build_pc = "built"
    /\ components.mode = Some("comprehensive")
    /\ components.chunk # None
    /\ components.custom_prompt # None
    /\ built.kind = "return"
    /\ built.text = "Hello world. [[0.0]]\n\nList the tools."

(* Properties of the LLM timeout, under Spec *)

\* what get_chat_completion raises when asyncio.wait_for times out
UpstreamTimeout ==
    [type |-> "HTTPException",
     msg |-> "504: Request timed out while waiting for the LLM response"]

\* the positions of the LLM calls that exceeded their deadline
TimedOutCalls ==
    {k \in 1..Len(llm_outcomes) :
        ~llm_outcomes[k].ok /\ llm_outcomes[k].text = UpstreamTimeout.msg}

Terminal == pc \in {"done", "failed"}

\* C20: whenever an LLM call made during process exceeds its deadline, the failure
\* reaches the caller of process as the upstream-timeout error (HTTP 504), in the
\* SINGLE_PASS and in the CHUNKED path alike, never as a generic failure or as a
\* normally returned result.
C20_TimeoutReachesCaller ==
    (Terminal /\ TimedOutCalls # {}) => result = Raised(UpstreamTimeout)

\* C20 as amended: in the SINGLE_PASS path a timed-out call ends process with the
\* upstream-timeout error (HTTP 504); in the CHUNKED path that error never reaches
\* the caller: a timed-out chunk call is absorbed as an empty chunk output and the
\* loop goes on, and a timed-out final call makes process return the trimmed buffer.
C20_TimeoutSinglePassOnly ==
    /\ (path = "SINGLE_PASS" /\ TimedOutCalls # {}) =>
          /\ pc = "failed"
          /\ result.kind = "raise"
          /\ result.type = "HTTPException"
          /\ result.text = "504: Request timed out while waiting for the LLM response"
    /\ path = "CHUNKED" =>
          /\ result # Raised(UpstreamTimeout)
          /\ \A k \in TimedOutCalls :
                /\ llm_calls[k].kind = "chunk" =>
                      /\ ~chunk_results[k].ok
                      /\ stored[k] \in {None, Some("")}
                      /\ pc = "failed" => result = Raised(BuildError(mode))
                /\ llm_calls[k].kind = "final" =>
                      /\ pc = "done"
                      /\ result = Returned(Strip(combined_response))

\* a CHUNKED request of three chunks whose second chunk call and final call timed out
\* returned a string
C20_Witness ==
    /\ path = "CHUNKED"
    /\ Len(chunks) = 3
    /\ TimedOutCalls = {2, 4}
    /\ pc = "done"
    /\ result.kind = "return"
    /\ result.text # ""

(* Properties of the configured chain, under SpecConfigured *)

ProviderFails(k) == available[k].kind = "raise"

ProviderSupplies(k) == available[k].kind = "return" /\ available[k].text # ""

\* C21: the configured chain tries the cache store, the third-party service, the
\* native transcript-library adapter and the subtitle-download tool in that order,
\* and for each position k: when every provider before k fails and provider k can
\* supply a transcript, fetch_transcript returns that transcript and no later
\* adapter is invoked.
C21_ConfiguredOrder ==
    /\ \A j \in 1..Len(call_log) : call_log[j].adapter = ProviderAdapters[j]
    /\ \A k \in DOMAIN ProviderAdapters :
          ( /\ chain_pc # "loop"
            /\ \A j \in 1..(k - 1) : ProviderFails(j)
            /\ ProviderSupplies(k) ) =>
              /\ chain_result = available[k]
              /\ Len(call_log) = k

(* Properties of the pacing delays, under Spec *)

\* the number of completed delays that followed exactly n_calls LLM calls
DelaysAfter(n_calls) == Cardinality({d \in DOMAIN pacing : pacing[d].calls = n_calls})

\* C22: in a CHUNKED request with n >= 1 chunks a pacing delay is completed before
\* every chunk call except the first and one more before the final synthesis call:
\* none before the first chunk call, exactly one between two consecutive LLM calls,
\* and n delays in all once the request has ended.
C22_PacingDelays ==
    (path = "CHUNKED" /\ Len(chunks) >= 1 /\ pc \notin {"route", "split"}) =>
        /\ DelaysAfter(0) = 0
        /\ \A k \in 2..Len(llm_calls) : DelaysAfter(k - 1) = 1
        /\ \A d \in DOMAIN pacing :
              /\ pacing[d].seconds = PACING_SECONDS
              /\ pacing[d].calls = d
        /\ pc \in {"chunk_build", "chunk_call", "final_build", "final_call"} =>
              Len(pacing) = IF pc \in {"final_build", "final_call"}
                            THEN Len(chunks) ELSE i
        /\ Terminal => Len(pacing) = Len(chunks)

\* a request of three chunks ended after three delays and four LLM calls
C22_Witness ==
    /\ path = "CHUNKED"
    /\ Len(chunks) = 3
    /\ pc = "done"
    /\ Len(llm_calls) = 4
    /\ Len(pacing) = 3

(* Properties of the previous context, under Spec *)

\* the chunk calls issued so far, as indices of llm_calls
ChunkCalls == {k \in DOMAIN llm_calls : llm_calls[k].kind = "chunk"}

\* C23: the previous context carried into the prompt of chunk i > 0 is derived only
\* from the stored output of chunk i-1: its last 10 sentences when it has more than
\* 10, otherwise the whole stored output, which is the empty string when chunk i-1
\* failed; the first chunk is built with an empty previous context, and its prompt
\* is built and its call issued all the same.
C23_PreviousContextFromPriorChunk ==
    path = "CHUNKED" =>
        /\ \A k \in ChunkCalls :
              LET j == llm_calls[k].index
                  context == llm_calls[k].context
              IN IF j = 0 THEN context = ""
                 ELSE /\ stored[j] # None
                      /\ LET prior == stored[j][1]
                             sentences == SplitAll(prior, ". ")
                         IN /\ Len(sentences) > 10 =>
                                  /\ context = Join(SubSeq(sentences, Len(sentences) - 9,
                                                           Len(sentences)), ". ")
                                  /\ Cardinality(Occurrences(context, ". ")) = 9
                                  /\ context # prior
                            /\ Len(sentences) <= 10 => context = prior
                            /\ EndsWith(prior, context)
                            /\ ~chunk_results[j].ok => context = ""
        /\ (Len(chunks) >= 1 /\ pc \in {"chunk_call", "chunk_sleep", "final_sleep",
                                        "final_build", "final_call", "done", "failed"}) =>
              /\ 1 \in ChunkCalls
              /\ llm_calls[1].index = 0
              /\ llm_calls[1].context = ""

\* the third chunk was called with the last ten of the twelve sentences of the second
\* chunk's output, after the second chunk was called with the first chunk's failure
C23_Witness ==
    /\ path = "CHUNKED"
    /\ Len(llm_calls) >= 3
    /\ ~chunk_results[1].ok
    /\ llm_calls[2].context = ""
    /\ stored[2] = Some("A. B. C. D. E. F. G. H. I. J. K. L.")
    /\ llm_calls[3].context = "C. D. E. F. G. H. I. J. K. L."

(* Properties of infer_output_tokens, under SpecTokens *)

\* the base budget of a mode as the specification states it
BaseBudget(m) ==
    IF m \in {"tldr", "TLDR"} THEN 1024
    ELSE IF m = "key_insights" THEN 2048
    ELSE IF m \in {"comprehensive", "article", "Article"} THEN 4096
    ELSE 1024

\* C24: infer_output_tokens returns int(base * f) with
\* f = min(3.0, 1.0 + max(0, input_tokens - 1000) / 1000 * 0.2), input_tokens =
\* characters / 4 and base = 1024 (TLDR), 2048 (KEY_INSIGHTS), 4096 (COMPREHENSIVE,
\* ARTICLE), 1024 (any other mode): the budget equals the base for inputs of at most
\* 4000 characters, is non-decreasing in the input length and never exceeds 3 * base.
C24_OutputTokenBudget ==
    tok_pc = "returned" =>
        LET n == Len(tok_text)
            base == BaseBudget(tok_mode)
        IN /\ max_output_tokens =
                 IF n >= 44000 THEN 3 * base
                 ELSE base + (base * (IF n > 4000 THEN n - 4000 ELSE 0)) \div 20000
           /\ n <= 4000 => max_output_tokens = base
           /\ max_output_tokens >= base
           /\ max_output_tokens <= 3 * base
           /\ \A n2 \in TokenLengths :
                 n2 >= n =>
                    infer_output_tokens(tok_mode, TextOfLength(n2)) >= max_output_tokens

\* a comprehensive request over 50000 characters got the capped budget of 12288
C24_Witness ==
    /\ tok_pc = "returned"
    /\ tok_mode = "comprehensive"
    /\ Len(tok_text) = 50000
    /\ max_output_tokens = 12288

(* Properties of the truncation, under SpecSinglePass *)

\* C25: in the SINGLE_PASS path the transcript text placed in the prompt never
\* exceeds the hard cap of MAX_TRANSCRIPT_TOKENS * 4 = 40000 characters, whatever
\* the length of the input transcript.
C25_PromptTranscriptCapped ==
    \A k \in DOMAIN llm_calls :
        llm_calls[k].kind = "single" =>
            Len(llm_calls[k].text) <= MAX_TRANSCRIPT_TOKENS * CHAR_TO_TOKEN_RATIO

(* Properties of the credit ledger, under SpecUsage *)

\* the wrapper calls whose wrapped operation ran to successful completion
Completed == {r \in Requests : Happened(r, "func_returned")}

\* C26: for a user whose profile starts with c >= 0 credits and is never topped up,
\* under every interleaving of concurrent track_usage-wrapped requests, at most c
\* wrapped operations run to successful completion, and each completion lowers the
\* stored balance by exactly one.
C26_CreditsNeverOverspent ==
    initial_credits # None =>
        /\ Cardinality(Completed) <= initial_credits[1]
        /\ (\A r \in Requests : u_pc[r] \in {"idle", "returned", "raised"}) =>
              profile_credits = Some(initial_credits[1] - Cardinality(Completed))

(* Properties of the returned transcript, under SpecConfigured *)

\* C27: fetch_transcript never returns an empty transcript as a success: whenever it
\* returns, the returned text is non-empty, and an adapter that yields no text (a
\* cached segment list that is empty or holds only blank segments) counts as a
\* failure, so that the next adapter is tried.
C27_NeverReturnsEmpty ==
    /\ chain_pc = "returned" => chain_result.text # ""
    /\ \A j \in DOMAIN call_log :
          (call_log[j].type = "str" /\ call_log[j].text = "") =>
              /\ ~call_log[j].ok
              /\ chain_pc # "loop" => Len(call_log) > j

(* Properties of the template prompt, under SpecBuilder *)

\* C28: for each of the five modes (TLDR, KEY_INSIGHTS, COMPREHENSIVE, ARTICLE,
\* CUSTOM) and any transcript, build with mode and transcript set, no custom prompt
\* and no chunk info returns a Prompt whose user message contains the transcript;
\* so the final synthesis step of a CHUNKED request without custom prompt never
\* fails while building its prompt.
C28_TemplateBuildSucceeds ==
    ( /\ build_pc = "built"
      /\ ModeOf(components) \in Modes
      /\ components.transcript # None
      /\ components.custom_prompt = None
      /\ components.chunk = None ) =>
        /\ built.kind = "return"
        /\ built.type = "Prompt"
        /\ Contains(built.text, components.transcript[1])

(* Properties of the sequence of LLM calls, under Spec *)

\* C29: a CHUNKED request over n chunks issues exactly n chunk calls, one per chunk
\* in index order, followed by exactly one final synthesis call: n + 1 calls in all
\* whatever subset of them fails; no call is retried, skipped or issued twice.
C29_ExactlyOneCallPerChunkPlusFinal ==
    path = "CHUNKED" =>
        /\ Len(llm_calls) <= Len(chunks) + 1
        /\ \A k \in DOMAIN llm_calls :
              IF k <= Len(chunks)
              THEN /\ llm_calls[k].kind = "chunk"
                   /\ llm_calls[k].index = k - 1
                   /\ llm_calls[k].text = chunks[k]
              ELSE llm_calls[k].kind = "final"
        /\ Len(llm_outcomes) <= Len(llm_calls)
        /\ Terminal =>
              /\ Len(llm_calls) = Len(chunks) + 1
              /\ Len(llm_outcomes) = Len(llm_calls)

(* Properties of the kind of result, under Spec *)

\* C30: process returns a token stream if and only if stream is requested and
\* duration <= 2400 seconds; in every other case it takes the CHUNKED path, issues
\* only non-streaming LLM calls and, when it returns, returns a complete string,
\* also when stream=True was requested.
C30_StreamOnlyOnSinglePass ==
    pc # "route" =>
        /\ path = "SINGLE_PASS" <=> (stream /\ duration <= 2400)
        /\ result.kind = "return" =>
              (result.type = "stream" <=> (stream /\ duration <= 2400))
        /\ path = "SINGLE_PASS" =>
              \A k \in DOMAIN llm_calls : llm_calls[k].kind = "single" /\ llm_calls[k].stream
        /\ ~(stream /\ duration <= 2400) =>
              /\ path = "CHUNKED"
              /\ \A k \in DOMAIN llm_calls :
                    llm_calls[k].kind \in {"chunk", "final"} /\ ~llm_calls[k].stream
              /\ result.kind = "return" => result.type = "str"
              /\ \A k \in DOMAIN llm_outcomes :
                    llm_outcomes[k].ok => llm_outcomes[k].type = "str"

\* a request of 2401 seconds that asked for streaming went through two chunk calls and
\* the final call, and returned a string
C30_Witness ==
    /\ stream
    /\ duration = 2401
    /\ path = "CHUNKED"
    /\ pc = "done"
    /\ Len(chunks) = 2
    /\ Len(llm_calls) = 3
    /\ result.kind = "return"
    /\ result.type = "str"
====
